---- MODULE Spec2Model ----
(***************************************************************************)
(* VideoTranscriber: PathUtils.resolve_path, VideoConverter.extract_audio, *)
(* VideoConverter.batch_convert and AudioTranscriber.batch_transcribe      *)
(* (src/core/video_converter.py, src/core/audio_transcriber.py).           *)
(*                                                                         *)
(* Strings are sequences of lexemes: the characters "/", "\", " " and "."  *)
(* are lexemes of their own, and every maximal run of other characters is  *)
(* one word lexeme ("desktop", "mp4").  Two word lexemes are never         *)
(* adjacent, so startswith, strip, split and rfind on lexemes agree with   *)
(* the same operations on characters.  Paths follow posixpath and          *)
(* pathlib.PurePosixPath: "/" is the only separator, "\" is an ordinary    *)
(* character of a file name.                                               *)
(***************************************************************************)
EXTENDS Naturals, Sequences, FiniteSets, TLC

\* ------------------------------------------------------------------ bounds

\* Largest number of spaces put before and after a token.
MaxPad == 1

\* Largest number of files the file system holds at the start.
MaxFiles == 3

\* Largest multiple of 0.02 s among the offsets a timestamp is asked for.
MaxTicks == 60

\* Largest number of segments of a transcription result.
MaxSegments == 2

\* ----------------------------------------------------------------- strings

SEP == "/"
BSL == "\\"
SP == " "
DOT == "."
NL == "\n"

\* What str.strip() removes.
Whitespace == { SP, NL }

\* The empty string.
Empty == << >>

\* str.strip(): leading and trailing whitespace removed.
RECURSIVE LStrip(_)
LStrip(s) == IF s # Empty /\ Head(s) \in Whitespace THEN LStrip(Tail(s)) ELSE s

RECURSIVE RStrip(_)
RStrip(s) ==
    IF s # Empty /\ s[Len(s)] \in Whitespace
    THEN RStrip(SubSeq(s, 1, Len(s) - 1))
    ELSE s

Strip(s) == RStrip(LStrip(s))

\* str.startswith(prefix)
StartsWith(s, prefix) ==
    /\ Len(prefix) <= Len(s)
    /\ SubSeq(s, 1, Len(prefix)) = prefix

\* "c in s" for a one-character c
Contains(s, c) == \E i \in 1..Len(s) : s[i] = c

\* str.lower(), on the words the model uses.
LowerWord(w) ==
    CASE w = "MP4" -> "mp4"
      [] w = "AVI" -> "avi"
      [] w = "MP3" -> "mp3"
      [] w = "WAV" -> "wav"
      [] w = "SRT" -> "srt"
      [] w = "Desktop" -> "desktop"
      [] w = "Videos" -> "videos"
      [] OTHER -> w

Lower(s) == [i \in 1..Len(s) |-> LowerWord(s[i])]

\* s.split("/")
RECURSIVE Split(_)
Split(s) ==
    IF ~Contains(s, SEP) THEN << s >>
    ELSE LET i == CHOOSE k \in 1..Len(s) :
                      s[k] = SEP /\ \A j \in 1..(k - 1) : s[j] # SEP
         IN << SubSeq(s, 1, i - 1) >> \o Split(SubSeq(s, i + 1, Len(s)))

\* "/".join(parts)
RECURSIVE JoinSep(_)
JoinSep(parts) ==
    IF parts = << >> THEN Empty
    ELSE IF Len(parts) = 1 THEN parts[1]
    ELSE parts[1] \o << SEP >> \o JoinSep(Tail(parts))

\* posixpath.isabs
IsAbs(s) == s # Empty /\ s[1] = SEP

\* posixpath.join(a, b)
OsJoin(a, b) ==
    IF IsAbs(b) THEN b
    ELSE IF a = Empty \/ a[Len(a)] = SEP THEN a \o b
    ELSE a \o << SEP >> \o b

\* ------------------------------------------------------------------- paths

\* pathlib.Path(s): empty and "." components are dropped.
PathOf(s) ==
    [abs |-> IsAbs(s),
     parts |-> SelectSeq(Split(s), LAMBDA c : c # Empty /\ c # << DOT >>)]

\* Path.__truediv__ with a string on the right: an absolute right operand
\* replaces the left one.
PathJoin(p, s) ==
    LET q == PathOf(s)
    IN IF q.abs THEN q ELSE [abs |-> p.abs, parts |-> p.parts \o q.parts]

\* str(path)
PathStr(p) ==
    IF p.abs THEN << SEP >> \o JoinSep(p.parts)
    ELSE IF p.parts = << >> THEN << DOT >>
    ELSE JoinSep(p.parts)

\* Path.name, Path.suffix and Path.stem
PathName(p) == IF p.parts = << >> THEN Empty ELSE p.parts[Len(p.parts)]

LastDot(name) ==
    IF Contains(name, DOT)
    THEN CHOOSE k \in 1..Len(name) :
             name[k] = DOT /\ \A j \in (k + 1)..Len(name) : name[j] # DOT
    ELSE 0

Suffix(name) ==
    LET i == LastDot(name)
    IN IF 1 < i /\ i < Len(name) THEN SubSeq(name, i, Len(name)) ELSE Empty

Stem(name) ==
    LET i == LastDot(name)
    IN IF 1 < i /\ i < Len(name) THEN SubSeq(name, 1, i - 1) ELSE name

\* Path.parent
PathParent(p) ==
    IF p.parts = << >> THEN p
    ELSE [abs |-> p.abs, parts |-> SubSeq(p.parts, 1, Len(p.parts) - 1)]

\* ------------------------------------------------------------- file system

VARIABLES
    files,      \* the regular files that exist: absolute paths, as components
    dirs        \* the directories that exist

\* Path.home() and os.getcwd()
Home == << << "home" >> >>
Cwd == << << "work" >> >>

\* The file a path names: relative paths are taken from the working directory.
AbsParts(p) == IF p.abs THEN p.parts ELSE Cwd \o p.parts

\* Path.absolute()
PathAbsolute(p) == [abs |-> TRUE, parts |-> AbsParts(p)]

\* Path.exists()
PathExists(p) == AbsParts(p) \in files \cup dirs

\* os.path.exists(s): the empty string names nothing, and a trailing "/"
\* names directories only.
OsExists(s) ==
    /\ s # Empty
    /\ PathExists(PathOf(s))
    /\ (s[Len(s)] = SEP => AbsParts(PathOf(s)) \in dirs)

\* All proper prefixes of a path, the root included.
Ancestors(parts) == { SubSeq(parts, 1, n) : n \in 0..(Len(parts) - 1) }

\* --------------------------------------------------------------- PathUtils

\* PathUtils.get_common_folders(): the table, in the order of the dict.
common_folders ==
    << [key |-> "desktop", path |-> [abs |-> TRUE, parts |-> Home \o << << "Desktop" >> >>]],
       [key |-> "downloads", path |-> [abs |-> TRUE, parts |-> Home \o << << "Downloads" >> >>]],
       [key |-> "documents", path |-> [abs |-> TRUE, parts |-> Home \o << << "Documents" >> >>]],
       [key |-> "videos", path |-> [abs |-> TRUE, parts |-> Home \o << << "Videos" >> >>]],
       [key |-> "music", path |-> [abs |-> TRUE, parts |-> Home \o << << "Music" >> >>]],
       [key |-> "pictures", path |-> [abs |-> TRUE, parts |-> Home \o << << "Pictures" >> >>]],
       [key |-> "onedrive_desktop",
        path |-> [abs |-> TRUE, parts |-> Home \o << << "OneDrive" >>, << "Desktop" >> >>]] >>

NotFound == [found |-> FALSE, val |-> Empty]
Found(s) == [found |-> TRUE, val |-> s]

\* The loop over the shortcuts, from table entry i on.
RECURSIVE ShortcutLoop(_, _)
ShortcutLoop(path_input, i) ==
    IF i > Len(common_folders) THEN NotFound
    ELSE LET shortcut == << common_folders[i].key >>
             folder_path == common_folders[i].path
         IN IF \/ StartsWith(path_input, shortcut \o << SEP >>)
               \/ StartsWith(path_input, shortcut \o << BSL >>)
            THEN LET relative_part ==
                         SubSeq(path_input, Len(shortcut) + 2, Len(path_input))
                     resolved == PathJoin(folder_path, relative_part)
                 IN IF PathExists(resolved) THEN Found(PathStr(resolved))
                    ELSE ShortcutLoop(path_input, i + 1)
            ELSE ShortcutLoop(path_input, i + 1)

\* The search of a bare file name that keeps the last folder holding it.
RECURSIVE FilenameLoopLast(_, _)
FilenameLoopLast(path_input, i) ==
    IF i > Len(common_folders) THEN NotFound
    ELSE LET potential_path == PathJoin(common_folders[i].path, path_input)
             later == FilenameLoopLast(path_input, i + 1)
         IN IF later.found THEN later
            ELSE IF PathExists(potential_path) THEN Found(PathStr(potential_path))
            ELSE NotFound

\* The search of a bare file name in the common folders, from entry i on.
RECURSIVE FilenameLoop(_, _)
FilenameLoop(path_input, i) ==
    IF i > Len(common_folders) THEN NotFound
    ELSE LET potential_path == PathJoin(common_folders[i].path, path_input)
         IN IF PathExists(potential_path) THEN Found(PathStr(potential_path))
            ELSE FilenameLoop(path_input, i + 1)

\* resolve_path without the early return for absolute paths.
resolve_path_no_isabs(raw_input) ==
    LET path_input == Strip(raw_input)
        by_shortcut == ShortcutLoop(path_input, 1)
        by_filename ==
            IF ~Contains(path_input, SEP) /\ ~Contains(path_input, BSL)
            THEN FilenameLoop(path_input, 1)
            ELSE NotFound
        current_dir_path == PathOf(path_input)
    IN IF by_shortcut.found THEN by_shortcut.val
       ELSE IF by_filename.found THEN by_filename.val
       ELSE IF PathExists(current_dir_path)
            THEN PathStr(PathAbsolute(current_dir_path))
       ELSE path_input

\* resolve_path with the shortcut step after the working-directory step.
resolve_path_cwd_first(raw_input) ==
    LET path_input == Strip(raw_input)
        by_shortcut == ShortcutLoop(path_input, 1)
        by_filename ==
            IF ~Contains(path_input, SEP) /\ ~Contains(path_input, BSL)
            THEN FilenameLoop(path_input, 1)
            ELSE NotFound
        current_dir_path == PathOf(path_input)
    IN IF IsAbs(path_input) THEN path_input
       ELSE IF PathExists(current_dir_path)
            THEN PathStr(PathAbsolute(current_dir_path))
       ELSE IF by_shortcut.found THEN by_shortcut.val
       ELSE IF by_filename.found THEN by_filename.val
       ELSE path_input

\* resolve_path that returns the absolute form when nothing matched.
resolve_path_always_absolute(raw_input) ==
    LET path_input == Strip(raw_input)
        by_shortcut == ShortcutLoop(path_input, 1)
        by_filename ==
            IF ~Contains(path_input, SEP) /\ ~Contains(path_input, BSL)
            THEN FilenameLoop(path_input, 1)
            ELSE NotFound
        current_dir_path == PathOf(path_input)
    IN IF IsAbs(path_input) THEN path_input
       ELSE IF by_shortcut.found THEN by_shortcut.val
       ELSE IF by_filename.found THEN by_filename.val
       ELSE PathStr(PathAbsolute(current_dir_path))

\* PathUtils.resolve_path
resolve_path(raw_input) ==
    LET path_input == Strip(raw_input)
        by_shortcut == ShortcutLoop(path_input, 1)
        by_filename ==
            IF ~Contains(path_input, SEP) /\ ~Contains(path_input, BSL)
            THEN FilenameLoop(path_input, 1)
            ELSE NotFound
        current_dir_path == PathOf(path_input)
    IN IF IsAbs(path_input) THEN path_input
       ELSE IF by_shortcut.found THEN by_shortcut.val
       ELSE IF by_filename.found THEN by_filename.val
       ELSE IF PathExists(current_dir_path)
            THEN PathStr(PathAbsolute(current_dir_path))
       ELSE path_input

\* ------------------------------------------------- resolve_path, on its own

VARIABLES
    rp_in,      \* the token given to resolve_path
    rp_out,     \* what resolve_path returned
    rp_pc       \* "ready" before the call, "done" after it

\* File and folder names of the resolver's test bed.
XMp4 == << "x", DOT, "mp4" >>
XMp4Space == << "x", DOT, "mp4", SP >>
SpaceXMp4 == << SP, "x", DOT, "mp4" >>

Folder(i) == common_folders[i].path.parts

\* The files that may exist when resolve_path is called.
ResolveUniverse ==
    { Folder(i) \o << XMp4 >> : i \in 1..Len(common_folders) }
        \cup { Cwd \o << XMp4 >>,
               Cwd \o << << "desktop" >>, XMp4 >>,
               Cwd \o << << "sub" >>, XMp4 >>,
               Folder(1) \o << XMp4Space >>,
               Folder(2) \o << SpaceXMp4 >>,
               Cwd \o << XMp4Space >> }

\* The tokens, before padding.
ResolveBodies ==
    { XMp4, Empty, << "Desktop", SEP >> \o XMp4,
      << "sub", SEP >> \o XMp4, << DOT, SEP >> \o XMp4,
      << SEP, "work", SEP >> \o XMp4,
      << SEP, "home", SEP, "Desktop", SEP >> \o XMp4,
      << SEP, "gone", SEP >> \o XMp4,
      << SEP, "work", SEP, DOT, SEP >> \o XMp4,
      << "desktop", SEP, SEP, "work", SEP >> \o XMp4,
      XMp4Space \o << SEP >> }
        \cup { << common_folders[i].key, sep >> \o XMp4 :
                   i \in 1..Len(common_folders), sep \in { SEP, BSL } }

Spaces(n) == [i \in 1..n |-> SP]

ResolveTokens ==
    { Spaces(l) \o b \o Spaces(r) : l \in 0..MaxPad, r \in 0..MaxPad, b \in ResolveBodies }

\* The directories a set of files implies, with the ones that always exist.
DirsOf(F) == UNION { Ancestors(f) : f \in F } \cup { << >>, Home, Cwd }

Bounded(U) == { F \in SUBSET U : Cardinality(F) <= MaxFiles }

OptionalResolveDirs == { Folder(1), Folder(2) }

\* ------------------------------------------------------- running operations

VARIABLES
    op,         \* the operation the caller invoked, "none" before the call
    pc,         \* the position of the running code
    outcome,    \* how the invoked operation ended, and with what
    ea,         \* the frame of the running extract_audio
    bc,         \* the frame of the running batch_convert or batch_transcribe
    ts,         \* the frame of the running transcribe_and_save
    model,      \* AudioTranscriber.model: None, or the model that the k-th
                \* call of whisper.load_model returned
    loader_calls, \* how each call of whisper.load_model ended, in order
    handles,    \* the media-decoding handles that are open
    calls,      \* every single-file call that has ended: input, success, result
    touched,    \* the paths created or written since the operation began
    partial,    \* the files left half-written by a failed write
    tm_in,      \* the offset in seconds a timestamp is asked for
    tm_out,     \* the fields computed for it and the timestamp rendered
    tm_pc,      \* "ready", or the conversion that was applied
    sv_result,  \* the transcription result that is saved
    sv_files,   \* what each saved file holds, by format
    sv_loaded,  \* what json.load reads back from the json file
    gui_file,   \* SimpleGUI.file_path: "" or the kind of file it names
    gui_processing, \* SimpleGUI.processing
    gui_button, \* the state of process_btn: "normal" or "disabled"
    gui_progress,   \* whether the progress bar is running
    gui_status, \* SimpleGUI.status
    gui_main,   \* the position of the main thread: "idle" in the main loop
    gui_workers \* the position of every worker thread started, in start order

vars ==
    << files, dirs, rp_in, rp_out, rp_pc, op, pc, outcome, ea, bc, ts, model,
       loader_calls,
       handles, calls, touched, partial, tm_in, tm_out, tm_pc, sv_result,
       sv_files, sv_loaded, gui_file, gui_processing, gui_button, gui_progress,
       gui_status, gui_main, gui_workers >>

gui_vars ==
    << gui_file, gui_processing, gui_button, gui_progress, gui_status, gui_main,
       gui_workers >>

fs_vars == << files, dirs, touched, partial >>
resolver_vars == << rp_in, rp_out, rp_pc >>
time_vars == << tm_in, tm_out, tm_pc >>
save_vars == << sv_result, sv_files, sv_loaded >>
writer_vars == << time_vars, save_vars >>

\* self.model before the model is loaded.
None == 0

NoOutcome == [status |-> "none", exc |-> "", value |-> Empty]
Returned(v) == [status |-> "returned", exc |-> "", value |-> v]
Raised(e) == [status |-> "raised", exc |-> e, value |-> Empty]

NoEa ==
    [video_path |-> Empty, audio_given |-> FALSE, audio_arg |-> Empty,
     audio_format |-> "", resolved_video_path |-> Empty, audio_path |-> Empty,
     clip_open |-> FALSE, written |-> << >>, exc |-> "", caught |-> { },
     context |-> { }]

NoBc ==
    [directory |-> Empty, output_given |-> FALSE, output_directory |-> Empty,
     format |-> "", listing |-> << >>, found |-> << >>, i |-> 1,
     results |-> << >>]

NoTs ==
    [audio_path |-> Empty, output_path |-> Empty, output_format |-> "",
     saved |-> FALSE, exc |-> ""]

\* ---------------------------------------------------------- VideoConverter

\* A derived audio path that keeps the video's extension.
DefaultAudioPathKeepsSuffix(resolved_video_path, audio_format) ==
    LET video_file == PathOf(resolved_video_path)
    IN PathStr(PathJoin(PathParent(video_file),
                        PathName(video_file) \o << DOT, audio_format >>))

\* The audio path extract_audio derives when none is given.
DefaultAudioPath(resolved_video_path, audio_format) ==
    LET video_file == PathOf(resolved_video_path)
    IN PathStr(PathJoin(PathParent(video_file),
                        Stem(PathName(video_file)) \o << DOT, audio_format >>))

\* How extract_audio picks audio_path.
ChooseAudioPath(frame, resolved_video_path) ==
    IF frame.audio_given THEN resolve_path(frame.audio_arg)
    ELSE DefaultAudioPath(resolved_video_path, frame.audio_format)

\* extract_audio with the existence check inside the try block, so that the
\* except clause wraps its FileNotFoundError.
extract_audio_begin_wrapped ==
    /\ pc = "ea_begin"
    /\ LET resolved_video_path == resolve_path(ea.video_path)
       IN IF ~OsExists(resolved_video_path)
          THEN /\ ea' = [ea EXCEPT
                            !.resolved_video_path = resolved_video_path,
                            !.exc = "Exception",
                            !.caught = { ea.video_path, resolved_video_path },
                            !.context = { ea.video_path, resolved_video_path }]
               /\ pc' = "ea_raised"
               /\ calls' = Append(calls, [input |-> ea.video_path, ok |-> FALSE,
                                          value |-> Empty])
          ELSE /\ ea' = [ea EXCEPT
                            !.resolved_video_path = resolved_video_path,
                            !.audio_path = ChooseAudioPath(ea, resolved_video_path)]
               /\ pc' = "ea_open"
               /\ calls' = calls
    /\ UNCHANGED << fs_vars, resolver_vars, writer_vars, gui_vars, op, outcome, bc, ts, model, loader_calls, handles >>

\* extract_audio, up to the try block: the input is resolved and checked,
\* the output path is chosen.
extract_audio_begin ==
    /\ pc = "ea_begin"
    /\ LET resolved_video_path == resolve_path(ea.video_path)
       IN IF ~OsExists(resolved_video_path)
          THEN /\ ea' = [ea EXCEPT !.resolved_video_path = resolved_video_path,
                                   !.exc = "FileNotFoundError",
                                   !.context = { ea.video_path, resolved_video_path }]
               /\ pc' = "ea_raised"
               /\ calls' = Append(calls, [input |-> ea.video_path, ok |-> FALSE, value |-> Empty])
          ELSE /\ ea' = [ea EXCEPT
                            !.resolved_video_path = resolved_video_path,
                            !.audio_path = ChooseAudioPath(ea, resolved_video_path)]
               /\ pc' = "ea_open"
               /\ calls' = calls
    /\ UNCHANGED << fs_vars, resolver_vars, writer_vars, gui_vars, op, outcome, bc, ts, model, loader_calls, handles >>

\* An except clause that prints the failure and returns audio_path.
extract_audio_except_swallowed(caught) ==
    /\ ea' = [ea EXCEPT !.caught = caught]
    /\ pc' = "ea_returned"
    /\ calls' = Append(calls, [input |-> ea.video_path, ok |-> TRUE, value |-> ea.audio_path])
    /\ handles' = handles

\* What the except clause of extract_audio does with a failure in the try
\* block: it raises a new Exception whose message is a fixed prefix and
\* str(e), and touches nothing else.  caught is the set of paths str(e)
\* names; context is the set of paths the new message names.
extract_audio_except(caught) ==
    /\ ea' = [ea EXCEPT !.exc = "Exception", !.caught = caught, !.context = caught]
    /\ pc' = "ea_raised"
    /\ calls' = Append(calls, [input |-> ea.video_path, ok |-> FALSE, value |-> Empty])
    /\ handles' = handles

\* VideoFileClip(resolved_video_path): the decoder opens the file, or fails.
\* A directory is never opened.
extract_audio_open ==
    /\ pc = "ea_open"
    /\ \/ /\ AbsParts(PathOf(ea.resolved_video_path)) \in files
          /\ handles' = handles + 1
          /\ ea' = [ea EXCEPT !.clip_open = TRUE]
          /\ pc' = "ea_write"
          /\ calls' = calls
       \/ \E caught \in { { }, { ea.resolved_video_path } } :
             extract_audio_except(caught)
    /\ UNCHANGED << fs_vars, resolver_vars, writer_vars, gui_vars, op, outcome, bc, ts, model, loader_calls >>

\* Where write_audiofile(audio_path) writes.
AudioTarget(audio_path) == AbsParts(PathOf(audio_path))

\* The file can be created: its directory exists and it is no directory.
Writable(target) ==
    /\ target # << >>
    /\ target \notin dirs
    /\ SubSeq(target, 1, Len(target) - 1) \in dirs

\* video.audio.write_audiofile(audio_path): the video has no audio track
\* (video.audio is None, an AttributeError that names no path), or the
\* write fails, perhaps after creating the file, with a message that may
\* name the audio path, or the audio file is written.
extract_audio_write ==
    /\ pc = "ea_write"
    /\ \/ /\ extract_audio_except({ })
          /\ UNCHANGED fs_vars
       \/ /\ Writable(AudioTarget(ea.audio_path))
          /\ \E caught \in { { }, { ea.audio_path } } : extract_audio_except(caught)
          /\ files' = files \cup { AudioTarget(ea.audio_path) }
          /\ touched' = touched \cup { AudioTarget(ea.audio_path) }
          /\ partial' = partial \cup { AudioTarget(ea.audio_path) }
          /\ dirs' = dirs
       \/ /\ Writable(AudioTarget(ea.audio_path))
          /\ files' = files \cup { AudioTarget(ea.audio_path) }
          /\ touched' = touched \cup { AudioTarget(ea.audio_path) }
          /\ partial' = partial \ { AudioTarget(ea.audio_path) }
          /\ dirs' = dirs
          /\ ea' = [ea EXCEPT !.written = << AudioTarget(ea.audio_path) >>]
          /\ pc' = "ea_close"
          /\ UNCHANGED << handles, calls >>
    /\ UNCHANGED << resolver_vars, writer_vars, gui_vars, op, outcome, bc, ts, model, loader_calls >>

\* video.close() and return audio_path
extract_audio_close ==
    /\ pc = "ea_close"
    /\ handles' = handles - 1
    /\ ea' = [ea EXCEPT !.clip_open = FALSE]
    /\ pc' = "ea_returned"
    /\ calls' = Append(calls, [input |-> ea.video_path, ok |-> TRUE, value |-> ea.audio_path])
    /\ UNCHANGED << fs_vars, resolver_vars, writer_vars, gui_vars, op, outcome, bc, ts, model, loader_calls >>

\* What extract_audio hands its caller, when the caller called it directly.
extract_audio_exit ==
    /\ op = "extract_audio"
    /\ \/ /\ pc = "ea_returned"
          /\ outcome' = Returned(ea.audio_path)
       \/ /\ pc = "ea_raised"
          /\ outcome' = Raised(ea.exc)
    /\ pc' = "done"
    /\ UNCHANGED << fs_vars, resolver_vars, writer_vars, gui_vars, op, ea, bc, ts, model, loader_calls, handles, calls >>

\* os.makedirs(d, exist_ok=True) succeeds unless a file is in the way.
CanMakeDirs(target) == (Ancestors(target) \cup { target }) \cap files = { }

MakeDirs(target) == dirs \cup Ancestors(target) \cup { target }

\* os.listdir(d), as a set: the names of the entries of directory d.
Entries(d, F, D) ==
    { p[Len(p)] : p \in { q \in F \cup D : Len(q) = Len(d) + 1 /\ SubSeq(q, 1, Len(d)) = d } }

\* The orders in which os.listdir may return a set of names.
Perms(S) ==
    { f \in [1..Cardinality(S) -> S] :
          \A i, j \in 1..Cardinality(S) : i # j => f[i] # f[j] }

video_extensions ==
    { << DOT, e >> : e \in { "mp4", "avi", "mov", "mkv", "wmv", "flv", "webm" } }

audio_extensions ==
    { << DOT, e >> : e \in { "mp3", "wav", "m4a", "flac", "aac", "ogg", "wma" } }

\* A filter that compares the suffix as it is written, without .lower().
RECURSIVE MatchingCaseSensitive(_, _, _)
MatchingCaseSensitive(directory, listing, extensions) ==
    IF listing = << >> THEN << >>
    ELSE LET file == Head(listing)
             rest == MatchingCaseSensitive(directory, Tail(listing), extensions)
         IN IF Suffix(PathName(PathOf(file))) \in extensions
            THEN << OsJoin(directory, file) >> \o rest
            ELSE rest

\* The listed names whose lower-cased suffix is in the set, each joined to
\* the directory, in listing order.
RECURSIVE Matching(_, _, _)
Matching(directory, listing, extensions) ==
    IF listing = << >> THEN << >>
    ELSE LET file == Head(listing)
             rest == Matching(directory, Tail(listing), extensions)
         IN IF Lower(Suffix(PathName(PathOf(file)))) \in extensions
            THEN << OsJoin(directory, file) >> \o rest
            ELSE rest

\* batch_convert, up to the loop over the video files: the directory check,
\* the output directory, the listing and its filter.
batch_convert_begin ==
    /\ op = "batch_convert"
    /\ pc = "bc_begin"
    /\ LET source == AbsParts(PathOf(bc.directory))
           output_directory ==
               IF bc.output_given THEN bc.output_directory ELSE bc.directory
           target == AbsParts(PathOf(output_directory))
           made == IF bc.output_given THEN MakeDirs(target) ELSE dirs
       IN IF ~OsExists(bc.directory)
          THEN /\ outcome' = Raised("FileNotFoundError")
               /\ pc' = "done"
               /\ UNCHANGED << fs_vars, bc >>
          ELSE IF bc.output_given /\ ~CanMakeDirs(target)
          THEN /\ outcome' = Raised("FileExistsError")
               /\ pc' = "done"
               /\ UNCHANGED << fs_vars, bc >>
          ELSE /\ dirs' = made
               /\ touched' = touched \cup (made \ dirs)
               /\ UNCHANGED << files, partial >>
               /\ IF source \in files
                  THEN /\ outcome' = Raised("NotADirectoryError")
                       /\ pc' = "done"
                       /\ bc' = bc
                  ELSE /\ \E listing \in Perms(Entries(source, files, made)) :
                              bc' = [bc EXCEPT
                                        !.output_directory = output_directory,
                                        !.listing = listing,
                                        !.found = Matching(bc.directory, listing,
                                                           video_extensions)]
                       /\ pc' = "bc_loop"
                       /\ outcome' = outcome
    /\ UNCHANGED << resolver_vars, writer_vars, gui_vars, op, ea, ts, model, loader_calls, handles, calls >>

\* The loop takes the next video file and calls extract_audio on it.
batch_convert_next ==
    /\ op = "batch_convert"
    /\ pc = "bc_loop"
    /\ bc.i <= Len(bc.found)
    /\ LET video_file == bc.found[bc.i]
           video_name == Stem(PathName(PathOf(video_file)))
           audio_path == OsJoin(bc.output_directory, video_name \o << DOT, bc.format >>)
       IN ea' = [NoEa EXCEPT !.video_path = video_file,
                             !.audio_given = TRUE,
                             !.audio_arg = audio_path,
                             !.audio_format = bc.format]
    /\ pc' = "ea_begin"
    /\ UNCHANGED << fs_vars, resolver_vars, writer_vars, gui_vars, op, outcome, bc, ts, model, loader_calls, handles, calls >>

\* A loop body that puts each result at the front of extracted_files.
batch_convert_append_front ==
    /\ op = "batch_convert"
    /\ pc = "ea_returned"
    /\ bc' = [bc EXCEPT !.results = << ea.audio_path >> \o bc.results, !.i = bc.i + 1]
    /\ pc' = "bc_loop"
    /\ UNCHANGED << fs_vars, resolver_vars, writer_vars, gui_vars, op, outcome, ea, ts, model, loader_calls, handles, calls >>

\* extract_audio returned: its result is appended to extracted_files.
batch_convert_append ==
    /\ op = "batch_convert"
    /\ pc = "ea_returned"
    /\ bc' = [bc EXCEPT !.results = Append(bc.results, ea.audio_path), !.i = bc.i + 1]
    /\ pc' = "bc_loop"
    /\ UNCHANGED << fs_vars, resolver_vars, writer_vars, gui_vars, op, outcome, ea, ts, model, loader_calls, handles, calls >>

\* A loop body without the try: the failure of one file leaves batch_convert.
batch_convert_except_raise ==
    /\ op = "batch_convert"
    /\ pc = "ea_raised"
    /\ outcome' = Raised(ea.exc)
    /\ pc' = "done"
    /\ UNCHANGED << fs_vars, resolver_vars, writer_vars, gui_vars, op, ea, bc, ts, model, loader_calls, handles, calls >>

\* An except clause that leaves the failed file to be taken again.
batch_convert_except_retry ==
    /\ op = "batch_convert"
    /\ pc = "ea_raised"
    /\ bc' = bc
    /\ pc' = "bc_loop"
    /\ UNCHANGED << fs_vars, resolver_vars, writer_vars, gui_vars, op, outcome, ea, ts, model, loader_calls, handles, calls >>

\* extract_audio raised: the except clause prints and continues.
batch_convert_except ==
    /\ op = "batch_convert"
    /\ pc = "ea_raised"
    /\ bc' = [bc EXCEPT !.i = bc.i + 1]
    /\ pc' = "bc_loop"
    /\ UNCHANGED << fs_vars, resolver_vars, writer_vars, gui_vars, op, outcome, ea, ts, model, loader_calls, handles, calls >>

\* The loop is over: return extracted_files.
batch_convert_return ==
    /\ op = "batch_convert"
    /\ pc = "bc_loop"
    /\ bc.i > Len(bc.found)
    /\ outcome' = Returned(bc.results)
    /\ pc' = "done"
    /\ UNCHANGED << fs_vars, resolver_vars, writer_vars, gui_vars, op, ea, bc, ts, model, loader_calls, handles, calls >>

\* -------------------------------------------------------- AudioTranscriber

\* w + "_transcription", for the words a stem of the model ends with.
TranscriptionWord(w) ==
    CASE w = "a" -> "a_transcription"
      [] w = "b" -> "b_transcription"
      [] w = "c" -> "c_transcription"
      [] w = "d" -> "d_transcription"
      [] w = "notes" -> "notes_transcription"

\* f"{stem}_transcription.{output_format}"
TranscriptionName(stem, output_format) ==
    LET n == Len(stem)
        named ==
            IF n > 0 /\ stem[n] \notin { SEP, BSL, SP, DOT }
            THEN SubSeq(stem, 1, n - 1) \o << TranscriptionWord(stem[n]) >>
            ELSE stem \o << "_transcription" >>
    IN named \o << DOT, output_format >>

\* The output path transcribe_and_save derives when none is given.
DefaultTranscriptionPath(audio_path, output_format) ==
    LET audio_file == PathOf(audio_path)
    IN PathStr(PathJoin(PathParent(audio_file),
                        TranscriptionName(Stem(PathName(audio_file)), output_format)))

\* transcribe_audio and transcribe_and_save raise: the exception leaves
\* transcribe_and_save as it is.
transcribe_raise(e) ==
    /\ ts' = [ts EXCEPT !.exc = e]
    /\ pc' = "ts_raised"
    /\ calls' = Append(calls, [input |-> ts.audio_path, ok |-> FALSE, value |-> Empty])

\* transcribe_audio with the existence check inside the try block, so that
\* the except clause wraps its FileNotFoundError.
transcribe_audio_begin_wrapped ==
    /\ pc = "ts_begin"
    /\ IF ~OsExists(ts.audio_path)
       THEN transcribe_raise("Exception")
       ELSE /\ pc' = "ts_load"
            /\ UNCHANGED << ts, calls >>
    /\ UNCHANGED << fs_vars, resolver_vars, writer_vars, gui_vars, op, outcome, ea, bc, model, loader_calls, handles >>

\* A transcribe_audio that loads the model before it looks for the file.
transcribe_audio_begin_loading ==
    /\ pc = "ts_begin"
    /\ model' = IF model = None THEN Len(loader_calls) + 1 ELSE model
    /\ loader_calls' = IF model = None THEN Append(loader_calls, "ok") ELSE loader_calls
    /\ IF ~OsExists(ts.audio_path)
       THEN transcribe_raise("FileNotFoundError")
       ELSE /\ pc' = "ts_load"
            /\ UNCHANGED << ts, calls >>
    /\ UNCHANGED << fs_vars, resolver_vars, writer_vars, gui_vars, op, outcome, ea, bc, handles >>

\* transcribe_audio: the audio file must exist.
transcribe_audio_begin ==
    /\ pc = "ts_begin"
    /\ IF ~OsExists(ts.audio_path)
       THEN transcribe_raise("FileNotFoundError")
       ELSE /\ pc' = "ts_load"
            /\ UNCHANGED << ts, calls >>
    /\ UNCHANGED << fs_vars, resolver_vars, writer_vars, gui_vars, op, outcome, ea, bc, model, loader_calls, handles >>

\* A _load_model without the test of self.model: every use loads again.
load_model_always ==
    /\ pc = "ts_load"
    /\ \/ /\ model' = Len(loader_calls) + 1
          /\ loader_calls' = Append(loader_calls, "ok")
          /\ pc' = "ts_transcribe"
          /\ UNCHANGED << ts, calls >>
       \/ /\ model' = model
          /\ loader_calls' = Append(loader_calls, "failed")
          /\ transcribe_raise("LoadError")
    /\ UNCHANGED << fs_vars, resolver_vars, writer_vars, gui_vars, op, outcome, ea, bc, handles >>

\* _load_model: whisper.load_model runs only while self.model is None, and
\* may fail; self.model is assigned only when it returns.
load_model ==
    /\ pc = "ts_load"
    /\ \/ /\ model = None
          /\ model' = Len(loader_calls) + 1
          /\ loader_calls' = Append(loader_calls, "ok")
          /\ pc' = "ts_transcribe"
          /\ UNCHANGED << ts, calls >>
       \/ /\ model = None
          /\ model' = model
          /\ loader_calls' = Append(loader_calls, "failed")
          /\ transcribe_raise("LoadError")
       \/ /\ model # None
          /\ UNCHANGED << model, loader_calls >>
          /\ pc' = "ts_transcribe"
          /\ UNCHANGED << ts, calls >>
    /\ UNCHANGED << fs_vars, resolver_vars, writer_vars, gui_vars, op, outcome, ea, bc, handles >>

\* A transcription that runs with the output file already opened for writing.
transcribe_audio_transcribe_truncating ==
    /\ pc = "ts_transcribe"
    /\ files' = files \cup { AbsParts(PathOf(ts.output_path)) }
    /\ touched' = touched \cup { AbsParts(PathOf(ts.output_path)) }
    /\ UNCHANGED << dirs, partial >>
    /\ \/ /\ pc' = "ts_save"
          /\ UNCHANGED << ts, calls >>
       \/ transcribe_raise("Exception")
    /\ UNCHANGED << resolver_vars, writer_vars, gui_vars, op, outcome, ea, bc, model, loader_calls, handles >>

\* self.model.transcribe(audio_path): a result, or a failure that the except
\* clause wraps.
transcribe_audio_transcribe ==
    /\ pc = "ts_transcribe"
    /\ \/ /\ pc' = "ts_save"
          /\ UNCHANGED << ts, calls >>
       \/ transcribe_raise("Exception")
    /\ UNCHANGED << fs_vars, resolver_vars, writer_vars, gui_vars, op, outcome, ea, bc, model, loader_calls, handles >>

\* The formats save_transcription writes.
KnownFormat(format_type) == LowerWord(format_type) \in { "txt", "json", "srt", "vtt" }

\* A save_transcription that removes the file when the write fails.
save_transcription_cleanup ==
    /\ pc = "ts_save"
    /\ LET output_file == PathOf(ts.output_path)
           parent == AbsParts(PathParent(output_file))
           target == AbsParts(output_file)
           made == MakeDirs(parent)
       IN IF ~CanMakeDirs(parent)
          THEN /\ transcribe_raise("FileExistsError")
               /\ UNCHANGED fs_vars
          ELSE /\ dirs' = made
               /\ IF ~KnownFormat(ts.output_format)
                  THEN /\ pc' = "ts_returned"
                       /\ ts' = ts
                       /\ calls' = Append(calls, [input |-> ts.audio_path, ok |-> TRUE, value |-> ts.output_path])
                       /\ touched' = touched \cup (made \ dirs)
                       /\ UNCHANGED << files, partial >>
                  ELSE IF target \in made \/ ts.output_path = Empty
                  THEN /\ transcribe_raise("Exception")
                       /\ touched' = touched \cup (made \ dirs)
                       /\ UNCHANGED << files, partial >>
                  ELSE /\ touched' = touched \cup (made \ dirs) \cup { target }
                       /\ \/ /\ files' = files \cup { target }
                             /\ partial' = partial \ { target }
                             /\ pc' = "ts_returned"
                             /\ ts' = [ts EXCEPT !.saved = TRUE]
                             /\ calls' = Append(calls, [input |-> ts.audio_path, ok |-> TRUE, value |-> ts.output_path])
                          \/ /\ files' = files \ { target }
                             /\ partial' = partial \ { target }
                             /\ transcribe_raise("Exception")
    /\ UNCHANGED << resolver_vars, writer_vars, gui_vars, op, outcome, ea, bc, model, loader_calls, handles >>

\* save_transcription and the return of transcribe_and_save: the parent
\* directory is made, then the file is written for a known format; the write
\* may fail after the file was opened.
save_transcription ==
    /\ pc = "ts_save"
    /\ LET output_file == PathOf(ts.output_path)
           parent == AbsParts(PathParent(output_file))
           target == AbsParts(output_file)
           made == MakeDirs(parent)
       IN IF ~CanMakeDirs(parent)
          THEN /\ transcribe_raise("FileExistsError")
               /\ UNCHANGED fs_vars
          ELSE /\ dirs' = made
               /\ IF ~KnownFormat(ts.output_format)
                  THEN /\ pc' = "ts_returned"
                       /\ ts' = ts
                       /\ calls' = Append(calls, [input |-> ts.audio_path, ok |-> TRUE, value |-> ts.output_path])
                       /\ touched' = touched \cup (made \ dirs)
                       /\ UNCHANGED << files, partial >>
                  ELSE IF target \in made \/ ts.output_path = Empty
                  THEN /\ transcribe_raise("Exception")
                       /\ touched' = touched \cup (made \ dirs)
                       /\ UNCHANGED << files, partial >>
                  ELSE /\ files' = files \cup { target }
                       /\ touched' = touched \cup (made \ dirs) \cup { target }
                       /\ \/ /\ partial' = partial \ { target }
                             /\ pc' = "ts_returned"
                             /\ ts' = [ts EXCEPT !.saved = TRUE]
                             /\ calls' = Append(calls, [input |-> ts.audio_path, ok |-> TRUE, value |-> ts.output_path])
                          \/ /\ partial' = partial \cup { target }
                             /\ transcribe_raise("Exception")
    /\ UNCHANGED << resolver_vars, writer_vars, gui_vars, op, outcome, ea, bc, model, loader_calls, handles >>

\* What transcribe_and_save hands its caller, when the caller called it
\* directly.
transcribe_and_save_exit ==
    /\ op = "transcribe_and_save"
    /\ \/ /\ pc = "ts_returned"
          /\ outcome' = Returned(ts.output_path)
       \/ /\ pc = "ts_raised"
          /\ outcome' = Raised(ts.exc)
    /\ pc' = "done"
    /\ UNCHANGED << fs_vars, resolver_vars, writer_vars, gui_vars, op, ea, bc, ts, model, loader_calls, handles, calls >>

\* A batch_transcribe that makes the output directory before it looks for
\* the input directory.
batch_transcribe_begin_makedirs_first ==
    /\ op = "batch_transcribe"
    /\ pc = "bc_begin"
    /\ LET source == AbsParts(PathOf(bc.directory))
           output_directory ==
               IF bc.output_given THEN bc.output_directory
               ELSE OsJoin(bc.directory, << "transcriptions" >>)
           target == AbsParts(PathOf(output_directory))
           made == MakeDirs(target)
       IN IF ~CanMakeDirs(target)
          THEN /\ outcome' = Raised("FileExistsError")
               /\ pc' = "done"
               /\ UNCHANGED << fs_vars, bc >>
          ELSE /\ dirs' = made
               /\ touched' = touched \cup (made \ dirs)
               /\ UNCHANGED << files, partial >>
               /\ IF source \notin files \cup made
                  THEN /\ outcome' = Raised("FileNotFoundError")
                       /\ pc' = "done"
                       /\ bc' = bc
                  ELSE IF source \in files
                  THEN /\ outcome' = Raised("NotADirectoryError")
                       /\ pc' = "done"
                       /\ bc' = bc
                  ELSE /\ \E listing \in Perms(Entries(source, files, made)) :
                              bc' = [bc EXCEPT
                                        !.output_directory = output_directory,
                                        !.listing = listing,
                                        !.found = Matching(bc.directory, listing,
                                                           audio_extensions)]
                       /\ pc' = "bc_loop"
                       /\ outcome' = outcome
    /\ UNCHANGED << resolver_vars, writer_vars, gui_vars, op, ea, ts, model, loader_calls, handles, calls >>

\* batch_transcribe, up to the loop over the audio files.
batch_transcribe_begin ==
    /\ op = "batch_transcribe"
    /\ pc = "bc_begin"
    /\ LET source == AbsParts(PathOf(bc.directory))
           output_directory ==
               IF bc.output_given THEN bc.output_directory
               ELSE OsJoin(bc.directory, << "transcriptions" >>)
           target == AbsParts(PathOf(output_directory))
           made == MakeDirs(target)
       IN IF ~OsExists(bc.directory)
          THEN /\ outcome' = Raised("FileNotFoundError")
               /\ pc' = "done"
               /\ UNCHANGED << fs_vars, bc >>
          ELSE IF ~CanMakeDirs(target)
          THEN /\ outcome' = Raised("FileExistsError")
               /\ pc' = "done"
               /\ UNCHANGED << fs_vars, bc >>
          ELSE /\ dirs' = made
               /\ touched' = touched \cup (made \ dirs)
               /\ UNCHANGED << files, partial >>
               /\ IF source \in files
                  THEN /\ outcome' = Raised("NotADirectoryError")
                       /\ pc' = "done"
                       /\ bc' = bc
                  ELSE /\ \E listing \in Perms(Entries(source, files, made)) :
                              bc' = [bc EXCEPT
                                        !.output_directory = output_directory,
                                        !.listing = listing,
                                        !.found = Matching(bc.directory, listing,
                                                           audio_extensions)]
                       /\ pc' = "bc_loop"
                       /\ outcome' = outcome
    /\ UNCHANGED << resolver_vars, writer_vars, gui_vars, op, ea, ts, model, loader_calls, handles, calls >>

\* The loop takes the next audio file and calls transcribe_and_save on it.
batch_transcribe_next ==
    /\ op = "batch_transcribe"
    /\ pc = "bc_loop"
    /\ bc.i <= Len(bc.found)
    /\ LET audio_file == bc.found[bc.i]
           audio_name == Stem(PathName(PathOf(audio_file)))
           output_path == OsJoin(bc.output_directory,
                                 TranscriptionName(audio_name, bc.format))
       IN ts' = [NoTs EXCEPT !.audio_path = audio_file,
                             !.output_path = output_path,
                             !.output_format = bc.format]
    /\ pc' = "ts_begin"
    /\ UNCHANGED << fs_vars, resolver_vars, writer_vars, gui_vars, op, outcome, ea, bc, model, loader_calls, handles, calls >>

\* transcribe_and_save returned: its result is appended to transcribed_files.
batch_transcribe_append ==
    /\ op = "batch_transcribe"
    /\ pc = "ts_returned"
    /\ bc' = [bc EXCEPT !.results = Append(bc.results, ts.output_path), !.i = bc.i + 1]
    /\ pc' = "bc_loop"
    /\ UNCHANGED << fs_vars, resolver_vars, writer_vars, gui_vars, op, outcome, ea, ts, model, loader_calls, handles, calls >>

\* transcribe_and_save raised: the except clause prints and continues.
batch_transcribe_except ==
    /\ op = "batch_transcribe"
    /\ pc = "ts_raised"
    /\ bc' = [bc EXCEPT !.i = bc.i + 1]
    /\ pc' = "bc_loop"
    /\ UNCHANGED << fs_vars, resolver_vars, writer_vars, gui_vars, op, outcome, ea, ts, model, loader_calls, handles, calls >>

\* The loop is over: return transcribed_files.
batch_transcribe_return ==
    /\ op = "batch_transcribe"
    /\ pc = "bc_loop"
    /\ bc.i > Len(bc.found)
    /\ outcome' = Returned(bc.results)
    /\ pc' = "done"
    /\ UNCHANGED << fs_vars, resolver_vars, writer_vars, gui_vars, op, ea, bc, ts, model, loader_calls, handles, calls >>

\* ------------------------------------------------------- Python's float

\* A float is an IEEE 754 binary64 number: at most Precision significant
\* bits.  The non-negative floats of the model are kept exactly, as the
\* whole part and the bits after the binary point, without trailing zeros:
\* 2.5 is [whole |-> 2, frac |-> << 1 >>].
Precision == 53

\* The number of bits of a natural number.
RECURSIVE BitLen(_)
BitLen(w) == IF w = 0 THEN 0 ELSE 1 + BitLen(w \div 2)

\* The positions of the ones of a sequence of bits.
Ones(bits) == { i \in 1..Len(bits) : bits[i] = 1 }

DropTrailingZeros(bits) ==
    IF Ones(bits) = { } THEN << >>
    ELSE SubSeq(bits, 1, CHOOSE i \in Ones(bits) : \A j \in Ones(bits) : j <= i)

\* The zeros a sequence of bits begins with.
LeadingZeros(bits) ==
    IF Ones(bits) = { } THEN Len(bits)
    ELSE (CHOOSE i \in Ones(bits) : \A j \in Ones(bits) : i <= j) - 1

\* bits + 1, read as a binary numeral: the sum and the carry out of it.
Increment(bits) ==
    LET zeros == { i \in 1..Len(bits) : bits[i] = 0 }
    IN IF zeros = { }
       THEN [bits |-> [i \in 1..Len(bits) |-> 0], carry |-> 1]
       ELSE LET last == CHOOSE i \in zeros : \A j \in zeros : j <= i
            IN [bits |-> [i \in 1..Len(bits) |->
                             IF i < last THEN bits[i] ELSE IF i = last THEN 1 ELSE 0],
                carry |-> 0]

\* Round to nearest, ties to even: the float nearest to the binary number
\* whole.frac, of which sticky says whether bits beyond frac were cut off.
RoundNearestEven(whole, frac, sticky) ==
    LET kept == IF whole > 0 THEN Precision - BitLen(whole)
                ELSE LeadingZeros(frac) + Precision
    IN IF Len(frac) <= kept
       THEN [whole |-> whole, frac |-> DropTrailingZeros(frac)]
       ELSE LET head == SubSeq(frac, 1, kept)
                guard == frac[kept + 1]
                rest == sticky \/ \E i \in (kept + 2)..Len(frac) : frac[i] = 1
                odd == head[kept] = 1
                r == Increment(head)
            IN IF guard = 1 /\ (rest \/ odd)
               THEN [whole |-> whole + r.carry, frac |-> DropTrailingZeros(r.bits)]
               ELSE [whole |-> whole, frac |-> DropTrailingZeros(head)]

\* The first count bits after the binary point of rem / d, for rem < d, and
\* the remainder left: long division, one half of the bits after the other.
RECURSIVE Expand(_, _, _)
Expand(rem, d, count) ==
    IF count = 0 THEN [bits |-> << >>, rem |-> rem]
    ELSE IF count = 1
    THEN LET bit == IF 2 * rem >= d THEN 1 ELSE 0
         IN [bits |-> << bit >>, rem |-> 2 * rem - bit * d]
    ELSE LET left == Expand(rem, d, count \div 2)
             right == Expand(left.rem, d, count - (count \div 2))
         IN [bits |-> left.bits \o right.bits, rem |-> right.rem]

\* The bits FloatOf expands a quotient to: enough for the zeros that a
\* quotient of at least 1/16384 begins with, Precision bits and the bit
\* that decides the rounding.
ExpandBits == Precision + 15

\* The float that the quotient n / d is read as: the nearest one.
FloatOf(n, d) ==
    LET e == Expand(n % d, d, ExpandBits)
    IN RoundNearestEven(n \div d, e.bits, e.rem # 0)

RECURSIVE Pow2(_)
Pow2(e) == IF e = 0 THEN 1 ELSE 2 * Pow2(e - 1)

\* The bits of a limb: the product is computed on limbs of this many bits.
LimbBits == 15

Limb == Pow2(LimbBits)

\* The number that a sequence of bits is the binary numeral of.
RECURSIVE NatOfBits(_)
NatOfBits(bits) ==
    IF bits = << >> THEN 0
    ELSE 2 * NatOfBits(SubSeq(bits, 1, Len(bits) - 1)) + bits[Len(bits)]

\* frac * k for the bits frac after the point and a natural k below Limb,
\* exactly: the bits of the product after the point, and its whole part.
TimesNat(frac, k) ==
    LET m == (Len(frac) + LimbBits - 1) \div LimbBits
        bit(i) == IF i <= Len(frac) THEN frac[i] ELSE 0
        limb == [j \in 1..m |->
                    NatOfBits([i \in 1..LimbBits |-> bit((j - 1) * LimbBits + i)])]
        carry[j \in 1..(m + 1)] ==
            IF j = m + 1 THEN 0 ELSE (limb[j] * k + carry[j + 1]) \div Limb
        product == [j \in 1..m |-> (limb[j] * k + carry[j + 1]) % Limb]
    IN [whole |-> carry[1],
        frac |-> [i \in 1..(m * LimbBits) |->
                     (product[((i - 1) \div LimbBits) + 1]
                          \div Pow2(LimbBits - 1 - ((i - 1) % LimbBits))) % 2]]

\* seconds % 1: the part after the point, which is a float itself.
FloatMod1(x) == [whole |-> 0, frac |-> x.frac]

\* x * 1000 in float arithmetic, for a float x below 1: the exact product,
\* rounded to the nearest float.
FloatTimes1000(x) ==
    LET p == TimesNat(x.frac, 1000)
    IN RoundNearestEven(p.whole, p.frac, FALSE)

\* int(x): the whole part.
IntOf(x) == x.whole

\* ------------------------------------------------ the subtitle timestamps

\* hours, minutes, secs and millisecs of _seconds_to_srt_time and of
\* _seconds_to_vtt_time, which compute them alike.  seconds // 3600,
\* seconds % 3600, seconds % 60 and seconds % 1 are exact on floats; the
\* product by 1000 is rounded.
TimeFields(seconds) ==
    [hours |-> seconds.whole \div 3600,
     minutes |-> (seconds.whole % 3600) \div 60,
     secs |-> seconds.whole % 60,
     millisecs |-> IntOf(FloatTimes1000(FloatMod1(seconds)))]

DigitChars == << "0", "1", "2", "3", "4", "5", "6", "7", "8", "9" >>

\* str(n), as a sequence of characters.
RECURSIVE Decimal(_)
Decimal(n) ==
    IF n < 10 THEN << DigitChars[n + 1] >>
    ELSE Decimal(n \div 10) \o << DigitChars[(n % 10) + 1] >>

\* f"{n:0<width>d}": str(n), filled with zeros on the left up to width.
RECURSIVE ZeroFill(_, _)
ZeroFill(chars, width) ==
    IF Len(chars) >= width THEN chars ELSE ZeroFill(<< "0" >> \o chars, width)

\* f"{hours:02d}:{minutes:02d}:{secs:02d}<mark>{millisecs:03d}"
FormatTime(fields, mark) ==
    ZeroFill(Decimal(fields.hours), 2) \o << ":" >>
        \o ZeroFill(Decimal(fields.minutes), 2) \o << ":" >>
        \o ZeroFill(Decimal(fields.secs), 2) \o << mark >>
        \o ZeroFill(Decimal(fields.millisecs), 3)

\* _seconds_to_srt_time: HH:MM:SS,mmm
seconds_to_srt_time(seconds) == FormatTime(TimeFields(seconds), ",")

\* _seconds_to_vtt_time: HH:MM:SS.mmm
seconds_to_vtt_time(seconds) == FormatTime(TimeFields(seconds), ".")

\* ------------------------------------------------- the transcription result

\* The values of Python that a transcription result is made of.  A str is
\* a sequence of lexemes, as above; a dict is the sequence of its items in
\* insertion order, each a key and a value.
PyStr(s) == [kind |-> "str", value |-> s]
PyInt(n) == [kind |-> "int", value |-> n]
PyFloat(x) == [kind |-> "float", value |-> x]
PyList(items) == [kind |-> "list", value |-> items]
PyDict(items) == [kind |-> "dict", value |-> items]

\* key in d
HasKey(d, key) == \E i \in 1..Len(d.value) : d.value[i][1] = key

\* d[key]
GetItem(d, key) ==
    d.value[CHOOSE i \in 1..Len(d.value) : d.value[i][1] = key][2]

\* d[key] = v: the value of an existing key is replaced where it stands, a
\* new key is added at the end.
SetItem(d, key, v) ==
    IF HasKey(d, key)
    THEN PyDict([i \in 1..Len(d.value) |->
                    IF d.value[i][1] = key THEN << key, v >> ELSE d.value[i]])
    ELSE PyDict(Append(d.value, << key, v >>))

\* The result that transcribe_audio returns: the result of the model with
\* the metadata added.  result.get("language", "unknown") is the language.
WithMetadata(result, audio_path, model_size, date) ==
    SetItem(result, << "metadata" >>,
            PyDict(<< << << "audio_file" >>, PyStr(audio_path) >>,
                      << << "model_used" >>, PyStr(model_size) >>,
                      << << "transcription_date" >>, PyStr(date) >>,
                      << << "detected_language" >>,
                         IF HasKey(result, << "language" >>)
                         THEN GetItem(result, << "language" >>)
                         ELSE PyStr(<< "unknown" >>) >> >>))

\* ---------------------------------------------- what save_transcription writes

\* The characters f.write receives, as lexemes: "\n" is one of them.
Arrow == << SP, "-", "-", ">", SP >>

\* c * n
Repeat(c, n) == [i \in 1..n |-> c]

\* The txt branch.
TxtContent(result) ==
    LET metadata == GetItem(result, << "metadata" >>)
        field(k) == GetItem(metadata, << k >>).value
    IN Repeat("=", 50) \o << NL >>
        \o << "AUDIO", SP, "TRANSCRIPTION", NL >>
        \o Repeat("=", 50) \o << NL, NL >>
        \o << "Audio", SP, "File", ":", SP >> \o field("audio_file") \o << NL >>
        \o << "Model", ":", SP >> \o field("model_used") \o << NL >>
        \o << "Language", ":", SP >> \o field("detected_language") \o << NL >>
        \o << "Date", ":", SP >> \o field("transcription_date") \o << NL >>
        \o << NL >> \o Repeat("-", 50) \o << NL >>
        \o << "TRANSCRIPTION", ":", NL >>
        \o Repeat("-", 50) \o << NL, NL >>
        \o GetItem(result, << "text" >>).value
        \o << NL, NL >> \o Repeat("=", 50) \o << NL >>

\* The three writes of the srt branch for the segment numbered i.
SrtBlock(i, segment) ==
    Decimal(i) \o << NL >>
        \o seconds_to_srt_time(GetItem(segment, << "start" >>).value) \o Arrow
        \o seconds_to_srt_time(GetItem(segment, << "end" >>).value) \o << NL >>
        \o Strip(GetItem(segment, << "text" >>).value) \o << NL, NL >>

\* The two writes of the vtt branch for a segment.
VttBlock(segment) ==
    seconds_to_vtt_time(GetItem(segment, << "start" >>).value) \o Arrow
        \o seconds_to_vtt_time(GetItem(segment, << "end" >>).value) \o << NL >>
        \o Strip(GetItem(segment, << "text" >>).value) \o << NL, NL >>

\* A loop over enumerate(segments) that numbers the blocks from 0.
RECURSIVE SrtBlocksFromZero(_, _)
SrtBlocksFromZero(segments, i) ==
    IF i > Len(segments) THEN << >>
    ELSE SrtBlock(i - 1, segments[i]) \o SrtBlocksFromZero(segments, i + 1)

\* The loop of the srt branch over enumerate(segments, 1), from the i-th
\* segment on.
RECURSIVE SrtBlocks(_, _)
SrtBlocks(segments, i) ==
    IF i > Len(segments) THEN << >>
    ELSE SrtBlock(i, segments[i]) \o SrtBlocks(segments, i + 1)

\* The srt branch.
SrtContent(result) == SrtBlocks(GetItem(result, << "segments" >>).value, 1)

\* The loop of the vtt branch, from the i-th segment on.
RECURSIVE VttBlocks(_, _)
VttBlocks(segments, i) ==
    IF i > Len(segments) THEN << >>
    ELSE VttBlock(segments[i]) \o VttBlocks(segments, i + 1)

\* The vtt branch: the header, then the blocks.
VttContent(result) ==
    << "WEBVTT", NL, NL >> \o VttBlocks(GetItem(result, << "segments" >>).value, 1)

\* ------------------------------------------------------------ json.dump

QUOTE == "\""

\* String escapes that leave the backslash as it is.
RECURSIVE JsonEscapeQuotes(_)
JsonEscapeQuotes(s) ==
    IF s = Empty THEN Empty
    ELSE (CASE Head(s) = QUOTE -> << BSL, QUOTE >>
            [] Head(s) = NL -> << BSL, "n" >>
            [] OTHER -> << Head(s) >>) \o JsonEscapeQuotes(Tail(s))

\* The string escapes of json.dump with ensure_ascii=False: the quote, the
\* backslash and the control characters; every other character, ASCII or
\* not, is written as it is.
RECURSIVE JsonEscape(_)
JsonEscape(s) ==
    IF s = Empty THEN Empty
    ELSE (CASE Head(s) = QUOTE -> << BSL, QUOTE >>
            [] Head(s) = BSL -> << BSL, BSL >>
            [] Head(s) = NL -> << BSL, "n" >>
            [] OTHER -> << Head(s) >>) \o JsonEscape(Tail(s))

JsonString(s) == << QUOTE >> \o JsonEscape(s) \o << QUOTE >>

RECURSIVE Pow10(_)
Pow10(k) == IF k = 0 THEN 1 ELSE 10 * Pow10(k - 1)

\* The integer nearest to x * 10^k, ties to even, for a float x.
Scaled(x, k) ==
    LET p == TimesNat(x.frac, Pow10(k))
        n == x.whole * Pow10(k) + p.whole
        up == /\ p.frac # << >>
              /\ p.frac[1] = 1
              /\ (n % 2 = 1 \/ \E i \in 2..Len(p.frac) : p.frac[i] = 1)
    IN IF up THEN n + 1 ELSE n

\* float.__repr__: the shortest decimal numeral that reads back as the same
\* float, with at least one digit after the point.  The floats of the model
\* have such a numeral with at most MaxDecimals digits after the point.
MaxDecimals == 4

FloatRepr(x) ==
    LET reads(i) == FloatOf(Scaled(x, i), Pow10(i)) = x
        k == CHOOSE i \in 1..MaxDecimals : reads(i) /\ \A j \in 1..(i - 1) : ~reads(j)
        n == Scaled(x, k)
    IN Decimal(n \div Pow10(k)) \o << DOT >> \o ZeroFill(Decimal(n % Pow10(k)), k)

\* level * indent spaces after a newline, for indent=2.
JsonNewline(level) == << NL >> \o Repeat(SP, 2 * level)

\* json.dump(value, f, indent=2, ensure_ascii=False), for a value that is
\* nested level deep.  JsonItems writes the items of a list or of a dict
\* from the i-th on, with the item separator between them.
RECURSIVE JsonDump(_, _)
RECURSIVE JsonItems(_, _, _)
JsonItems(container, i, level) ==
    LET item == container.value[i]
        written == IF container.kind = "dict"
                   THEN JsonString(item[1]) \o << ":", SP >> \o JsonDump(item[2], level)
                   ELSE JsonDump(item, level)
    IN IF i = Len(container.value) THEN written
       ELSE written \o << "," >> \o JsonNewline(level)
                \o JsonItems(container, i + 1, level)

JsonDump(value, level) ==
    CASE value.kind = "str" -> JsonString(value.value)
      [] value.kind = "int" -> Decimal(value.value)
      [] value.kind = "float" -> FloatRepr(value.value)
      [] value.kind \in { "list", "dict" } ->
            LET open == IF value.kind = "dict" THEN "{" ELSE "["
                close == IF value.kind = "dict" THEN "}" ELSE "]"
            IN IF value.value = << >> THEN << open, close >>
               ELSE << open >> \o JsonNewline(level + 1)
                        \o JsonItems(value, 1, level + 1)
                        \o JsonNewline(level) \o << close >>

\* The json branch.
JsonContent(result) == JsonDump(result, 0)

\* ------------------------------------------------- reading the json file back

\* The first position from i on whose character is not in S, or the
\* position after the end.
SkipIn(c, i, S) ==
    CHOOSE j \in i..(Len(c) + 1) :
        /\ j = Len(c) + 1 \/ c[j] \notin S
        /\ \A k \in i..(j - 1) : c[k] \in S

\* JSON whitespace before a token.
SkipWs(c, i) == SkipIn(c, i, Whitespace)

\* The number of backslashes that stand immediately before position j, none
\* of them before position lo.
RECURSIVE BackslashRun(_, _, _)
BackslashRun(c, lo, j) ==
    IF j - 1 >= lo /\ c[j - 1] = BSL THEN 1 + BackslashRun(c, lo, j - 1) ELSE 0

\* The closing quote of the string whose opening quote is at i: the first
\* quote that no backslash escapes.
StringEnd(c, i) ==
    LET closes(j) == c[j] = QUOTE /\ BackslashRun(c, i + 1, j) % 2 = 0
    IN CHOOSE j \in (i + 1)..Len(c) :
           closes(j) /\ \A k \in (i + 1)..(j - 1) : ~closes(k)

\* The string a JSON string body stands for: a backslash that is not itself
\* escaped is dropped and the character after it is decoded.
JsonUnescape(raw) ==
    LET escaped(k) == BackslashRun(raw, 1, k) % 2 = 1
        kept == { k \in 1..Len(raw) : escaped(k) \/ raw[k] # BSL }
        nth(n) == CHOOSE k \in kept : Cardinality({ m \in kept : m <= k }) = n
        decode(ch) == IF ch = "n" THEN NL ELSE ch
    IN [n \in 1..Cardinality(kept) |->
           IF escaped(nth(n)) THEN decode(raw[nth(n)]) ELSE raw[nth(n)]]

JsonDigits == { DigitChars[k] : k \in 1..10 }

\* int(): the number a decimal numeral stands for.
RECURSIVE NatOfDecimal(_)
NatOfDecimal(digits) ==
    IF digits = << >> THEN 0
    ELSE NatOfDecimal(SubSeq(digits, 1, Len(digits) - 1)) * 10
             + (CHOOSE k \in 0..9 : DigitChars[k + 1] = digits[Len(digits)])

\* A JSON number from position i on: an int when it has no point, otherwise
\* float(), the float nearest to the decimal numeral.
JsonNumber(c, i) ==
    LET end == SkipIn(c, i, JsonDigits \cup { DOT })
        point == SkipIn(c, i, JsonDigits)
        whole == SubSeq(c, i, point - 1)
        fraction == SubSeq(c, point + 1, end - 1)
    IN [value |-> IF point = end THEN PyInt(NatOfDecimal(whole))
                  ELSE PyFloat(FloatOf(NatOfDecimal(whole \o fraction),
                                       Pow10(Len(fraction)))),
        next |-> end]

\* json.load, from position i on, which holds the first character of a
\* value: the value and the position after it.  JsonMembers reads the
\* members of an object or the elements of an array from position i on,
\* items being those read so far; a key that comes again replaces the value
\* it had.
RECURSIVE JsonValue(_, _)
RECURSIVE JsonMembers(_, _, _, _)
JsonMembers(c, i, kind, items) ==
    LET key == JsonValue(c, i)
        colon == SkipWs(c, key.next)
        start == IF kind = "dict" THEN SkipWs(c, colon + 1) ELSE i
        member == JsonValue(c, start)
        read == IF kind = "dict"
                THEN SetItem(PyDict(items), key.value.value, member.value).value
                ELSE Append(items, member.value)
        after == SkipWs(c, member.next)
    IN IF c[after] = ","
       THEN JsonMembers(c, SkipWs(c, after + 1), kind, read)
       ELSE [value |-> [kind |-> kind, value |-> read], next |-> after + 1]

JsonValue(c, i) ==
    CASE c[i] = QUOTE ->
            [value |-> PyStr(JsonUnescape(SubSeq(c, i + 1, StringEnd(c, i) - 1))),
             next |-> StringEnd(c, i) + 1]
      [] c[i] \in { "{", "[" } ->
            LET kind == IF c[i] = "{" THEN "dict" ELSE "list"
                first == SkipWs(c, i + 1)
            IN IF c[first] \in { "}", "]" }
               THEN [value |-> [kind |-> kind, value |-> << >>], next |-> first + 1]
               ELSE JsonMembers(c, first, kind, << >>)
      [] OTHER -> JsonNumber(c, i)

\* json.load(f) on a file with this content.
JsonLoad(content) == JsonValue(content, SkipWs(content, 1)).value

\* The values of the variables that an operation leaves alone throughout.
NoTime == [fields |-> << >>, stamp |-> << >>]

\* The variables of the GUI while no window is open.
GuiOff ==
    /\ gui_file = ""
    /\ gui_processing = FALSE
    /\ gui_button = "off"
    /\ gui_progress = FALSE
    /\ gui_status = ""
    /\ gui_main = "off"
    /\ gui_workers = << >>

WriterOff ==
    /\ tm_in = << >>
    /\ tm_out = NoTime
    /\ tm_pc = "off"
    /\ sv_result = << >>
    /\ sv_files = << >>
    /\ sv_loaded = << >>

\* ------------------------------------------------------------- the callers

\* File names of the test bed.
AMp4 == << "a", DOT, "mp4" >>
AAvi == << "a", DOT, "avi" >>
BMp4 == << "b", DOT, "MP4" >>
CMp3 == << "c", DOT, "mp3" >>
CWav == << "c", DOT, "WAV" >>
OutMp3 == << "out", DOT, "mp3" >>

WorkVideos == Cwd \o << << "videos" >> >>
WorkOut == Cwd \o << << "out" >> >>

\* The files that may exist when an operation is called.
Universe ==
    { WorkVideos \o << n >> : n \in { AMp4, AAvi, BMp4, CMp3, CWav } }
        \cup { WorkVideos \o << << "sub" >>, AMp4 >>,
               Folder(4) \o << AMp4 >>, Folder(1) \o << OutMp3 >>,
               Folder(1) \o << AMp4 >> }

OptionalDirs == { WorkVideos, WorkOut }

\* The arguments the callers pass.
VideoArgs ==
    { AMp4, << SP >> \o AMp4,
      << "videos", SEP >> \o AMp4,
      << "videos", SEP >> \o BMp4,
      << SEP, "work", SEP, "videos", SEP >> \o AMp4,
      << "videos" >> }

AudioArgs ==
    { OutMp3, << "out", SEP >> \o OutMp3, << SEP, "work", SEP >> \o OutMp3 }

DirectoryArgs ==
    { << "videos" >>, << SEP, "work", SEP, "videos" >>,
      << "videos", SEP >> \o AMp4, << "nodir" >> }

OutputDirectoryArgs == { << "out" >>, << "videos", SEP >> \o AMp4 }

AudioFileArgs == { << "videos", SEP >> \o CMp3, CMp3 }

OutputFileArgs == { << "out", SEP, "c", DOT, "txt" >> }

AudioFormats == { "mp3", "wav" }

OutputFormats == { "SRT", "pdf" }

\* The output format the callers pass to batch_transcribe.
BatchOutputFormats == { "SRT" }

Init ==
    /\ GuiOff
    /\ files \in Bounded(Universe)
    /\ \E extra \in SUBSET OptionalDirs : dirs = DirsOf(files) \cup extra
    /\ rp_in = Empty
    /\ rp_out = Empty
    /\ rp_pc = "off"
    /\ op = "none"
    /\ pc = "idle"
    /\ outcome = NoOutcome
    /\ ea = NoEa
    /\ bc = NoBc
    /\ ts = NoTs
    /\ model = None
    /\ loader_calls = << >>
    /\ handles = 0
    /\ calls = << >>
    /\ touched = { }
    /\ partial = { }
    /\ WriterOff

\* A caller calls VideoConverter.extract_audio(video_path, audio_path, audio_format).
call_extract_audio ==
    /\ pc = "idle"
    /\ \E video_path \in VideoArgs, audio_format \in AudioFormats :
          \/ ea' = [NoEa EXCEPT !.video_path = video_path,
                                !.audio_format = audio_format]
          \/ \E audio_path \in AudioArgs :
                ea' = [NoEa EXCEPT !.video_path = video_path,
                                   !.audio_given = TRUE,
                                   !.audio_arg = audio_path,
                                   !.audio_format = audio_format]
    /\ op' = "extract_audio"
    /\ pc' = "ea_begin"
    /\ UNCHANGED << fs_vars, resolver_vars, writer_vars, gui_vars, outcome, bc, ts, model, loader_calls, handles, calls >>

\* A caller calls VideoConverter.batch_convert(video_directory, output_directory).
call_batch_convert ==
    /\ pc = "idle"
    /\ \E directory \in DirectoryArgs :
          \/ bc' = [NoBc EXCEPT !.directory = directory, !.format = "mp3"]
          \/ \E output_directory \in OutputDirectoryArgs :
                bc' = [NoBc EXCEPT !.directory = directory,
                                   !.output_given = TRUE,
                                   !.output_directory = output_directory,
                                   !.format = "mp3"]
    /\ op' = "batch_convert"
    /\ pc' = "bc_begin"
    /\ UNCHANGED << fs_vars, resolver_vars, writer_vars, gui_vars, outcome, ea, ts, model, loader_calls, handles, calls >>

\* A caller calls transcribe_and_save(audio_path, output_path, None, output_format).
call_transcribe_and_save ==
    /\ pc = "idle"
    /\ \E audio_path \in AudioFileArgs, output_format \in OutputFormats :
          \/ ts' = [NoTs EXCEPT
                       !.audio_path = audio_path,
                       !.output_path = DefaultTranscriptionPath(audio_path, output_format),
                       !.output_format = output_format]
          \/ \E output_path \in OutputFileArgs :
                ts' = [NoTs EXCEPT !.audio_path = audio_path,
                                   !.output_path = output_path,
                                   !.output_format = output_format]
    /\ op' = "transcribe_and_save"
    /\ pc' = "ts_begin"
    /\ UNCHANGED << fs_vars, resolver_vars, writer_vars, gui_vars, outcome, ea, bc, model, loader_calls, handles, calls >>

\* A caller calls batch_transcribe(audio_directory, output_directory, None, output_format).
call_batch_transcribe ==
    /\ pc = "idle"
    /\ \E directory \in DirectoryArgs, output_format \in BatchOutputFormats :
          \/ bc' = [NoBc EXCEPT !.directory = directory, !.format = output_format]
          \/ \E output_directory \in OutputDirectoryArgs :
                bc' = [NoBc EXCEPT !.directory = directory,
                                   !.output_given = TRUE,
                                   !.output_directory = output_directory,
                                   !.format = output_format]
    /\ op' = "batch_transcribe"
    /\ pc' = "bc_begin"
    /\ UNCHANGED << fs_vars, resolver_vars, writer_vars, gui_vars, outcome, ea, ts, model, loader_calls, handles, calls >>

Next ==
    \/ call_extract_audio
    \/ extract_audio_begin
    \/ extract_audio_open
    \/ extract_audio_write
    \/ extract_audio_close
    \/ extract_audio_exit
    \/ call_batch_convert
    \/ batch_convert_begin
    \/ batch_convert_next
    \/ batch_convert_append
    \/ batch_convert_except
    \/ batch_convert_return
    \/ call_transcribe_and_save
    \/ transcribe_audio_begin
    \/ load_model
    \/ transcribe_audio_transcribe
    \/ save_transcription
    \/ transcribe_and_save_exit
    \/ call_batch_transcribe
    \/ batch_transcribe_begin
    \/ batch_transcribe_next
    \/ batch_transcribe_append
    \/ batch_transcribe_except
    \/ batch_transcribe_return

Spec == Init /\ [][Next]_vars

\* ------------------------------------------- resolve_path, called on its own

InitResolve ==
    /\ GuiOff
    /\ files \in Bounded(ResolveUniverse)
    /\ \E extra \in SUBSET OptionalResolveDirs : dirs = DirsOf(files) \cup extra
    /\ rp_in \in ResolveTokens
    /\ rp_out = Empty
    /\ rp_pc = "ready"
    /\ op = "resolve_path"
    /\ pc = "idle"
    /\ outcome = NoOutcome
    /\ ea = NoEa
    /\ bc = NoBc
    /\ ts = NoTs
    /\ model = None
    /\ loader_calls = << >>
    /\ handles = 0
    /\ calls = << >>
    /\ touched = { }
    /\ partial = { }
    /\ WriterOff

\* A caller calls PathUtils.resolve_path(rp_in).
call_resolve_path ==
    /\ rp_pc = "ready"
    /\ rp_out' = resolve_path(rp_in)
    /\ rp_pc' = "done"
    /\ UNCHANGED << fs_vars, rp_in, writer_vars, gui_vars, op, pc, outcome, ea, bc, ts, model, loader_calls, handles, calls >>

NextResolve == call_resolve_path

SpecResolve == InitResolve /\ [][NextResolve]_vars

\* ------------------------------------ the timestamp conversions, on their own

\* The values of the variables of the operations while none of them runs.
OperationsOff ==
    /\ files = { }
    /\ dirs = { }
    /\ rp_in = Empty
    /\ rp_out = Empty
    /\ rp_pc = "off"
    /\ op = "none"
    /\ pc = "off"
    /\ outcome = NoOutcome
    /\ ea = NoEa
    /\ bc = NoBc
    /\ ts = NoTs
    /\ model = None
    /\ loader_calls = << >>
    /\ handles = 0
    /\ calls = << >>
    /\ touched = { }
    /\ partial = { }

operation_vars ==
    << op, pc, outcome, ea, bc, ts, model, loader_calls, handles, calls >>

\* The offsets of the test bed, as quotients: the multiples of 0.02 s up to
\* MaxTicks of them, and some offsets further out.
OffsetQuotients ==
    { << 2 * k, 100 >> : k \in 0..MaxTicks }
        \cup { << 35999999, 10000 >>, << 3, 2 >>, << 23, 10 >>,
               << 3599999, 1000 >>, << 59999, 1000 >>, << 3600, 1 >>,
               << 86399999, 1000 >>, << 720001, 2 >> }

Offsets == { FloatOf(q[1], q[2]) : q \in OffsetQuotients }

InitTime ==
    /\ GuiOff
    /\ OperationsOff
    /\ tm_in \in Offsets
    /\ tm_out = NoTime
    /\ tm_pc = "ready"
    /\ sv_result = << >>
    /\ sv_files = << >>
    /\ sv_loaded = << >>

\* A caller calls _seconds_to_srt_time(tm_in).
call_seconds_to_srt_time ==
    /\ tm_pc = "ready"
    /\ tm_out' = [fields |-> TimeFields(tm_in), stamp |-> seconds_to_srt_time(tm_in)]
    /\ tm_pc' = "srt"
    /\ UNCHANGED << fs_vars, resolver_vars, operation_vars, gui_vars, save_vars, tm_in >>

\* A caller calls _seconds_to_vtt_time(tm_in).
call_seconds_to_vtt_time ==
    /\ tm_pc = "ready"
    /\ tm_out' = [fields |-> TimeFields(tm_in), stamp |-> seconds_to_vtt_time(tm_in)]
    /\ tm_pc' = "vtt"
    /\ UNCHANGED << fs_vars, resolver_vars, operation_vars, gui_vars, save_vars, tm_in >>

NextTime ==
    \/ call_seconds_to_srt_time
    \/ call_seconds_to_vtt_time

SpecTime == InitTime /\ [][NextTime]_vars

\* ------------------------------------------ save_transcription, on its own

\* Lexemes that stand for characters outside ASCII: U+00E9, and a word of
\* three characters of the CJK block.
EAcute == "U+00E9"
Kanji == "U+65E5 U+672C U+8A9E"

\* The segments the model of the test bed may return: start, end, text.
SegmentPool ==
    { << FloatOf(0, 1), FloatOf(3, 2), << SP, "Hello", SP, "world" >> >>,
      << FloatOf(3, 2), FloatOf(23, 10), << EAcute, SP >> >>,
      << FloatOf(35999999, 10000), FloatOf(7201, 2), << SP >> >> }

\* The texts it may return.
Texts ==
    { Empty, << SP, "Hello", SP, "world" >>,
      << EAcute, QUOTE, BSL, "n", NL, Kanji >> }

\* The sequences of at most n elements of S.
UpTo(S, n) == UNION { [1..k -> S] : k \in 0..n }

\* The dict a segment is: its id is its position, from 0.
SegmentDict(id, s) ==
    PyDict(<< << << "id" >>, PyInt(id) >>,
              << << "start" >>, PyFloat(s[1]) >>,
              << << "end" >>, PyFloat(s[2]) >>,
              << << "text" >>, PyStr(s[3]) >> >>)

\* What model.transcribe returns: text, segments, and the language unless
\* it is left out.
RawResults ==
    { PyDict(<< << << "text" >>, PyStr(text) >>,
                << << "segments" >>,
                   PyList([i \in 1..Len(segs) |-> SegmentDict(i - 1, segs[i])]) >> >>
                 \o language) :
          text \in Texts, segs \in UpTo(SegmentPool, MaxSegments),
          language \in { << >>, << << << "language" >>, PyStr(<< "en" >>) >> >> } }

NotSaved == [saved |-> FALSE, content |-> << >>]
NotLoaded == [loaded |-> FALSE, value |-> << >>]

\* The formats save_transcription knows, in lower case.
SaveFormats == { "txt", "json", "srt", "vtt" }

InitSave ==
    /\ GuiOff
    /\ OperationsOff
    /\ tm_in = << >>
    /\ tm_out = NoTime
    /\ tm_pc = "off"
    /\ sv_result \in RawResults
    /\ sv_files = [f \in SaveFormats |-> NotSaved]
    /\ sv_loaded = NotLoaded

\* transcribe_audio adds the metadata to the result of the model and
\* returns it.
transcribe_audio_return ==
    /\ ~HasKey(sv_result, << "metadata" >>)
    /\ sv_result' = WithMetadata(sv_result, << "videos", SEP, "c", DOT, "mp3" >>,
                                 << "base" >>, << "2024-01-01T00:00:00" >>)
    /\ UNCHANGED << fs_vars, resolver_vars, operation_vars, gui_vars, time_vars,
                    sv_files, sv_loaded >>

\* What save_transcription writes for format_type.
SavedContent(result, format_type) ==
    CASE LowerWord(format_type) = "txt" -> TxtContent(result)
      [] LowerWord(format_type) = "json" -> JsonContent(result)
      [] LowerWord(format_type) = "srt" -> SrtContent(result)
      [] LowerWord(format_type) = "vtt" -> VttContent(result)

\* transcribe_and_save calls save_transcription(result, output_path,
\* format_type) with the result of transcribe_audio; each format has its own
\* output file.
call_save_transcription ==
    /\ HasKey(sv_result, << "metadata" >>)
    /\ \E format_type \in { "txt", "json", "SRT", "vtt" } :
          /\ ~sv_files[LowerWord(format_type)].saved
          /\ sv_files' =
                 [sv_files EXCEPT ![LowerWord(format_type)] =
                     [saved |-> TRUE, content |-> SavedContent(sv_result, format_type)]]
    /\ UNCHANGED << fs_vars, resolver_vars, operation_vars, gui_vars, time_vars,
                    sv_result, sv_loaded >>

\* The json file that save_transcription wrote is read back with json.load.
call_json_load ==
    /\ sv_files["json"].saved
    /\ ~sv_loaded.loaded
    /\ sv_loaded' = [loaded |-> TRUE, value |-> JsonLoad(sv_files["json"].content)]
    /\ UNCHANGED << fs_vars, resolver_vars, operation_vars, gui_vars, time_vars,
                    sv_result, sv_files >>

NextSave ==
    \/ transcribe_audio_return
    \/ call_save_transcription
    \/ call_json_load

SpecSave == InitSave /\ [][NextSave]_vars

\* ------------------------------------------------- claims on resolve_path

\* The well-known-folder table as the specification states it: the keys in
\* table order, and the folder of each key under the home directory.
KeyOrder ==
    << "desktop", "downloads", "documents", "videos", "music", "pictures",
       "onedrive_desktop" >>

FolderOfKey(k) ==
    CASE k = "desktop" -> Home \o << << "Desktop" >> >>
      [] k = "downloads" -> Home \o << << "Downloads" >> >>
      [] k = "documents" -> Home \o << << "Documents" >> >>
      [] k = "videos" -> Home \o << << "Videos" >> >>
      [] k = "music" -> Home \o << << "Music" >> >>
      [] k = "pictures" -> Home \o << << "Pictures" >> >>
      [] k = "onedrive_desktop" -> Home \o << << "OneDrive" >>, << "Desktop" >> >>

\* The path folder/<rest> of a well-known folder, and whether it exists.
Joined(k, rest) == PathJoin([abs |-> TRUE, parts |-> FolderOfKey(k)], rest)

\* Token t has the form <shortcut>/<rest> or <shortcut>\<rest> for key k.
HasShortcut(t, k) ==
    /\ Len(t) >= 2
    /\ t[1] = k
    /\ t[2] \in { SEP, BSL }

RestOf(t) == SubSeq(t, 3, Len(t))

IsBare(t) == ~Contains(t, SEP) /\ ~Contains(t, BSL)

\* Token t ends with no whitespace, and is s followed by whitespace only.
StrippedRight(t, s) ==
    /\ \E n \in 0..Len(t) : t = s \o Spaces(n)
    /\ (s = Empty \/ s[Len(s)] # SP)

\* t with the whitespace around it removed: from its first character that is
\* no space to its last.
Trimmed(t) ==
    LET solid == { i \in 1..Len(t) : t[i] # SP }
    IN IF solid = { } THEN Empty
       ELSE SubSeq(t, CHOOSE i \in solid : \A j \in solid : i <= j,
                      CHOOSE i \in solid : \A j \in solid : j <= i)

\* C4 as stated: resolve_path returns every absolute token unchanged,
\* character for character.
C4_AbsoluteUnchanged ==
    (rp_pc = "done" /\ IsAbs(rp_in)) => rp_out = rp_in

\* C4, amended: resolve_path returns an absolute token with its trailing
\* whitespace stripped, and so unchanged when it ends with no whitespace.
C4_AbsoluteStripped ==
    (rp_pc = "done" /\ IsAbs(rp_in)) =>
        /\ StrippedRight(rp_in, rp_out)
        /\ (rp_in[Len(rp_in)] # SP => rp_out = rp_in)

\* C4, reached: an absolute token that ends in a space and names an existing
\* file once stripped.
C4_Witness ==
    /\ rp_pc = "done"
    /\ IsAbs(rp_in)
    /\ rp_in[Len(rp_in)] = SP
    /\ rp_out # rp_in
    /\ PathExists(PathOf(rp_out))

\* C5 as stated: a non-absolute token <shortcut>/<rest> or <shortcut>\<rest>
\* whose folder/<rest> exists resolves to that joined path, also when the
\* same relative name exists under the working directory.
C5_ShortcutJoined ==
    \A k \in { KeyOrder[i] : i \in 1..Len(KeyOrder) } :
        (/\ rp_pc = "done"
         /\ ~IsAbs(rp_in)
         /\ HasShortcut(rp_in, k)
         /\ PathExists(Joined(k, RestOf(rp_in))))
            => rp_out = PathStr(Joined(k, RestOf(rp_in)))

\* C5, amended: the form and the existence are those of the token with the
\* whitespace around it stripped.
C5_ShortcutJoinedStripped ==
    \A k \in { KeyOrder[i] : i \in 1..Len(KeyOrder) } :
        LET t == Trimmed(rp_in)
        IN (/\ rp_pc = "done"
            /\ ~IsAbs(t)
            /\ HasShortcut(t, k)
            /\ PathExists(Joined(k, RestOf(t))))
               => rp_out = PathStr(Joined(k, RestOf(t)))

\* C5, reached: desktop/x.mp4 with x.mp4 both in the Desktop folder and under
\* desktop/ in the working directory.
C5_Witness ==
    /\ rp_pc = "done"
    /\ HasShortcut(rp_in, "desktop")
    /\ rp_in[2] = SEP
    /\ PathExists(Joined("desktop", RestOf(rp_in)))
    /\ PathExists(PathOf(rp_in))
    /\ rp_out = PathStr(Joined("desktop", RestOf(rp_in)))

\* No step of the resolution matches token t.
NoStepMatches(t) ==
    /\ ~IsAbs(t)
    /\ \A i \in 1..Len(KeyOrder) :
           HasShortcut(t, KeyOrder[i]) => ~PathExists(Joined(KeyOrder[i], RestOf(t)))
    /\ IsBare(t) => \A i \in 1..Len(KeyOrder) : ~PathExists(Joined(KeyOrder[i], t))
    /\ ~PathExists(PathOf(t))

FirstHolder(t, i) ==
    /\ PathExists(Joined(KeyOrder[i], t))
    /\ \A j \in 1..(i - 1) : ~PathExists(Joined(KeyOrder[j], t))

\* The steps are tried in order for the bare token t and the result is out.
OrderedFor(t, out) ==
    /\ \A i \in 1..Len(KeyOrder) :
           FirstHolder(t, i) => out = PathStr(Joined(KeyOrder[i], t))
    /\ (\A i \in 1..Len(KeyOrder) : ~PathExists(Joined(KeyOrder[i], t)))
           => out = IF PathExists(PathOf(t)) THEN PathStr(PathAbsolute(PathOf(t))) ELSE t

\* C7 as stated: a token with no separator resolves to the first well-known
\* folder, in table order, that holds it, and to the working directory only
\* when no well-known folder holds it.
C7_FirstMatchWins ==
    (rp_pc = "done" /\ IsBare(rp_in)) =>
        /\ \A i \in 1..Len(KeyOrder) :
               FirstHolder(rp_in, i) => rp_out = PathStr(Joined(KeyOrder[i], rp_in))
        /\ (/\ PathExists(PathOf(rp_in))
            /\ rp_out = PathStr(PathAbsolute(PathOf(rp_in))))
               => \A i \in 1..Len(KeyOrder) : ~PathExists(Joined(KeyOrder[i], rp_in))

\* C7, amended: the same of the token with the whitespace around it stripped.
C7_FirstMatchWinsStripped ==
    (rp_pc = "done" /\ IsBare(Trimmed(rp_in))) => OrderedFor(Trimmed(rp_in), rp_out)

\* C7, reached: x.mp4 is in Downloads, in Videos and in the working
\* directory, not on the Desktop.
C7_Witness ==
    /\ rp_pc = "done"
    /\ rp_in = XMp4
    /\ ~PathExists(Joined("desktop", rp_in))
    /\ PathExists(Joined("downloads", rp_in))
    /\ PathExists(Joined("videos", rp_in))
    /\ PathExists(PathOf(rp_in))
    /\ rp_out = PathStr(Joined("downloads", rp_in))

\* ----------------------------------- claims on extract_audio and the batches

InBatch == op \in { "batch_convert", "batch_transcribe" }

\* extract_audio has just returned or raised.
ExtractAudioLeft == pc \in { "ea_returned", "ea_raised" }

\* C1: every media-decoding handle extract_audio opened is closed when it
\* returns or raises.
C1_HandleReleasedOnExit ==
    ExtractAudioLeft => ~ea.clip_open

\* The values of the calls that succeeded, in call order.
RECURSIVE ValuesOfOk(_)
ValuesOfOk(log) ==
    IF log = << >> THEN << >>
    ELSE IF Head(log).ok THEN << Head(log).value >> \o ValuesOfOk(Tail(log))
    ELSE ValuesOfOk(Tail(log))

CountOk(log) == Cardinality({ k \in 1..Len(log) : log[k].ok })

\* C2: a batch never raises once a single-file call has ended, whether that
\* call failed or not; when it is done with the files it has returned, every
\* matching file was attempted, and the returned list has as many entries as
\* files succeeded.
C2_BatchSurvivesFailures ==
    InBatch =>
        /\ (outcome.status = "raised" =>
                /\ calls = << >>
                /\ bc.found = << >>
                /\ outcome.exc \in { "FileNotFoundError", "FileExistsError",
                                     "NotADirectoryError" })
        /\ ((pc = "done" /\ outcome.status # "raised") =>
                /\ outcome.status = "returned"
                /\ Len(calls) = Len(bc.found)
                /\ Len(outcome.value) = CountOk(calls)
                /\ \A j \in 1..Len(outcome.value) :
                       \E k \in 1..Len(calls) :
                           calls[k].ok /\ calls[k].value = outcome.value[j])

\* C2, reached: three video files, one of which failed, and two entries
\* returned.
C2_Witness ==
    /\ op = "batch_convert"
    /\ pc = "done"
    /\ Len(bc.found) = 3
    /\ CountOk(calls) = 2
    /\ \E k \in 1..3 : ~calls[k].ok /\ calls[k].input = bc.found[k]
    /\ outcome.status = "returned"
    /\ Len(outcome.value) = 2

\* The positions of the listing from which the found files come, in order.
FoundInListingOrder ==
    \E pos \in [1..Len(bc.found) -> 1..Len(bc.listing)] :
        /\ \A k \in 1..Len(bc.found) : bc.found[k] = OsJoin(bc.directory, bc.listing[pos[k]])
        /\ \A j, k \in 1..Len(bc.found) : j < k => pos[j] < pos[k]

\* C3: the files are processed in the order of the directory listing, and
\* the returned list holds the outputs of the files that succeeded in that
\* same order.
C3_DiscoveryOrder ==
    InBatch =>
        /\ FoundInListingOrder
        /\ Len(calls) <= Len(bc.found)
        /\ \A k \in 1..Len(calls) : calls[k].input = bc.found[k]
        /\ (pc = "bc_loop" => bc.results = ValuesOfOk(calls))
        /\ ((pc = "done" /\ outcome.status = "returned") =>
                outcome.value = ValuesOfOk(calls))

\* C3, reached: the listing b.MP4, c.mp3, a.mp4 gives the output of b.MP4
\* before that of a.mp4.
C3_Witness ==
    /\ op = "batch_convert"
    /\ pc = "done"
    /\ outcome.status = "returned"
    /\ Len(bc.listing) = 3
    /\ bc.listing[1] = BMp4
    /\ bc.listing[2] = CMp3
    /\ bc.listing[3] = AMp4
    /\ Len(outcome.value) = 2
    /\ calls[1].input = << "videos", SEP >> \o BMp4
    /\ outcome.value[1] = calls[1].value
    /\ outcome.value[2] = calls[2].value
    /\ outcome.value[1] # outcome.value[2]

\* The file a path string names.
Location(s) == AbsParts(PathOf(s))

\* C8: when extract_audio is given an output path and succeeds, the audio
\* file is written at the place that path names and the path returned names
\* that place.
C8_ExplicitOutputPath ==
    (/\ op = "extract_audio"
     /\ pc = "done"
     /\ ea.audio_given
     /\ outcome.status = "returned")
        => /\ ea.written = << Location(ea.audio_arg) >>
           /\ Location(outcome.value) = Location(ea.audio_arg)

\* Name n with its extension replaced by the audio format; a name without
\* an extension gets one.
ReplacedExtension(n, audio_format) ==
    IF Len(n) >= 3 /\ n[Len(n) - 1] = DOT /\ n[Len(n)] \notin { SEP, BSL, SP, DOT }
    THEN SubSeq(n, 1, Len(n) - 2) \o << DOT, audio_format >>
    ELSE n \o << DOT, audio_format >>

\* extract_audio has chosen its output path.
AudioPathChosen ==
    /\ op = "extract_audio"
    /\ pc \in { "ea_open", "ea_write", "ea_close", "ea_returned" }

\* C9: without an output path, extract_audio writes beside the resolved
\* input, under the input's name with the extension replaced by the audio
\* format, and returns that path.
C9_DefaultAudioPath ==
    (AudioPathChosen /\ ~ea.audio_given) =>
        LET input == PathOf(ea.resolved_video_path)
            output == PathOf(ea.audio_path)
        IN /\ AbsParts(PathParent(output)) = AbsParts(PathParent(input))
           /\ PathName(output) = ReplacedExtension(PathName(input), ea.audio_format)
           /\ (pc = "ea_returned" => ea.written = << AbsParts(output) >>)

\* C9, reached: a.mp4 found on the Desktop gives a.mp3 on the Desktop.
C9_Witness ==
    /\ op = "extract_audio"
    /\ pc = "done"
    /\ ~ea.audio_given
    /\ ea.video_path = AMp4
    /\ ea.audio_format = "mp3"
    /\ ea.resolved_video_path = << SEP, "home", SEP, "Desktop", SEP >> \o AMp4
    /\ outcome = Returned(<< SEP, "home", SEP, "Desktop", SEP, "a", DOT, "mp3" >>)
    /\ Folder(1) \o << << "a", DOT, "mp3" >> >> \in files

\* extract_audio has checked its input.
InputChecked == ea.video_path # Empty /\ pc # "ea_begin"

\* C10: when the resolved input path does not exist, extract_audio raises
\* FileNotFoundError itself, not an Exception that wraps it, and opens
\* nothing.
C10_MissingInputNotFound ==
    (InputChecked /\ ~OsExists(ea.resolved_video_path)) =>
        /\ ea.exc = "FileNotFoundError"
        /\ ~ea.clip_open
        /\ ea.written = << >>
        /\ (op = "extract_audio" => pc \in { "ea_raised", "done" })
        /\ ((op = "extract_audio" /\ pc = "done")
                => outcome = Raised("FileNotFoundError"))

\* C10, reached: videos/a.mp4 is missing while other files exist.
C10_Witness ==
    /\ op = "extract_audio"
    /\ pc = "done"
    /\ ea.video_path = << "videos", SEP >> \o AMp4
    /\ ea.resolved_video_path = ea.video_path
    /\ files # { }
    /\ outcome = Raised("FileNotFoundError")

\* ------------------------------------------- claims on the transcriber

\* transcribe_audio has checked its input.
AudioChecked == ts.audio_path # Empty /\ pc # "ts_begin"

\* C11: when the audio path does not exist, transcribe_audio raises
\* FileNotFoundError, and transcribe_and_save ends with that same error and
\* saves nothing.
C11_MissingAudioNotFound ==
    (AudioChecked /\ ~OsExists(ts.audio_path)) =>
        /\ ts.exc = "FileNotFoundError"
        /\ ~ts.saved
        /\ pc \notin { "ts_load", "ts_transcribe", "ts_save", "ts_returned" }
        /\ (op = "transcribe_and_save" => pc \in { "ts_raised", "done" })
        /\ ((op = "transcribe_and_save" /\ pc = "done")
                => outcome = Raised("FileNotFoundError"))

\* C11, reached: c.mp3 is asked for in the working directory, where it is
\* not, while other files exist.
C11_Witness ==
    /\ op = "transcribe_and_save"
    /\ pc = "done"
    /\ ts.audio_path = CMp3
    /\ files # { }
    /\ outcome = Raised("FileNotFoundError")

\* ------------------------------------- claims on the errors of extract_audio

\* The extraction call inside extract_audio failed and the except clause
\* raised its Exception.
ExtractionFailed == ea.exc = "Exception"

\* C12: the Exception raised for a failed extraction names the input path
\* and the output path in its message.
C12_ErrorCarriesPaths ==
    ExtractionFailed =>
        /\ ea.resolved_video_path \in ea.context
        /\ ea.audio_path \in ea.context

\* The positions in loader_calls of the calls that returned a model.
LoadsOk == { k \in 1..Len(loader_calls) : loader_calls[k] = "ok" }

\* C13: over the transcribe_audio calls of one instance the model loader is
\* invoked at most once.
C13_LoaderInvokedOnce == Len(loader_calls) <= 1

\* C13, as the code has it: the loader is invoked again on every use while
\* no model is held, so a failed load is tried again; it returns a model at
\* most once, that call is the last call of the loader, and self.model is
\* the model that call returned, or None while no call has returned one.
C13_LoadedOnce ==
    /\ Cardinality(LoadsOk) <= 1
    /\ LoadsOk \subseteq { Len(loader_calls) }
    /\ (model = None <=> LoadsOk = { })
    /\ (model # None => model \in LoadsOk)

\* C13, reached: a batch transcribed two audio files, both with the model
\* that the one call of the loader returned.
C13_Witness ==
    /\ op = "batch_transcribe"
    /\ pc = "done"
    /\ Len(calls) = 2
    /\ \A k \in 1..2 : calls[k].ok
    /\ loader_calls = << "ok" >>
    /\ model = 1

\* ------------------------------------------------- claims on the timestamps

\* floor(x * 1000) for a float x, computed exactly.
FloorMillis(x) == x.whole * 1000 + TimesNat(x.frac, 1000).whole

\* C14: the fields rendered for an offset t are in their ranges and add up
\* to floor(t * 1000) milliseconds: the conversion truncates and never
\* rounds up; 3599.9999 renders as 00:59:59,999 and 1.5 as 00:00:01,500.
C14_TimestampTruncates ==
    tm_pc \in { "srt", "vtt" } =>
        LET f == tm_out.fields
        IN /\ f.hours >= 0
           /\ f.minutes \in 0..59
           /\ f.secs \in 0..59
           /\ f.millisecs \in 0..999
           /\ f.hours * 3600000 + f.minutes * 60000 + f.secs * 1000 + f.millisecs
                  = FloorMillis(tm_in)
           /\ ((tm_pc = "srt" /\ tm_in = FloatOf(35999999, 10000))
                   => tm_out.stamp = << "0", "0", ":", "5", "9", ":", "5", "9",
                                        ",", "9", "9", "9" >>)
           /\ ((tm_pc = "srt" /\ tm_in = FloatOf(3, 2))
                   => tm_out.stamp = << "0", "0", ":", "0", "0", ":", "0", "1",
                                        ",", "5", "0", "0" >>)

\* --------------------------------------------- claims on the saved formats

\* The positions of the line ends of a file.
Breaks(content) == { i \in 1..Len(content) : content[i] = NL }

\* The position of the k-th line end.
NthBreak(content, k) ==
    CHOOSE p \in Breaks(content) :
        Cardinality({ q \in Breaks(content) : q <= p }) = k

\* The lines of a file, each without its line end; the file is empty or
\* ends with a line end.
LineCount(content) == Cardinality(Breaks(content))

Line(content, k) ==
    SubSeq(content,
           IF k = 1 THEN 1 ELSE NthBreak(content, k - 1) + 1,
           NthBreak(content, k) - 1)

EndsLines(content) == content = << >> \/ content[Len(content)] = NL

\* A line with every ',' turned into '.'.
WithDots(line) == [i \in 1..Len(line) |-> IF line[i] = "," THEN "." ELSE line[i]]

SavedSegments == GetItem(sv_result, << "segments" >>).value

SegmentText(k) == GetItem(SavedSegments[k], << "text" >>).value
SegmentStart(k) == GetItem(SavedSegments[k], << "start" >>).value
SegmentEnd(k) == GetItem(SavedSegments[k], << "end" >>).value

\* C15: the srt file is one block of four lines per segment, in segment
\* order: the number of the block, counted from 1, the two timestamps, the
\* stripped text, an empty line.  The vtt file is the WEBVTT header and an
\* empty line, then one block of three lines per segment, in segment order,
\* without a number.  The timestamp line of every vtt block is that of the
\* srt block with '.' in place of ','.
C15_SubtitleBlocks ==
    LET n == Len(SavedSegments)
        srt == sv_files["srt"].content
        vtt == sv_files["vtt"].content
    IN /\ sv_files["srt"].saved =>
             /\ EndsLines(srt)
             /\ LineCount(srt) = 4 * n
             /\ \A k \in 1..n :
                   /\ Line(srt, 4 * k - 3) = Decimal(k)
                   /\ Line(srt, 4 * k - 2) =
                          seconds_to_srt_time(SegmentStart(k)) \o Arrow
                              \o seconds_to_srt_time(SegmentEnd(k))
                   /\ Line(srt, 4 * k - 1) = Strip(SegmentText(k))
                   /\ Line(srt, 4 * k) = << >>
       /\ sv_files["vtt"].saved =>
             /\ EndsLines(vtt)
             /\ LineCount(vtt) = 2 + 3 * n
             /\ Line(vtt, 1) = << "WEBVTT" >>
             /\ Line(vtt, 2) = << >>
             /\ \A k \in 1..n :
                   /\ Line(vtt, 3 * k) =
                          seconds_to_vtt_time(SegmentStart(k)) \o Arrow
                              \o seconds_to_vtt_time(SegmentEnd(k))
                   /\ Line(vtt, 3 * k + 1) = Strip(SegmentText(k))
                   /\ Line(vtt, 3 * k + 2) = << >>
       /\ (sv_files["srt"].saved /\ sv_files["vtt"].saved) =>
             \A k \in 1..n :
                 /\ Line(vtt, 3 * k) = WithDots(Line(srt, 4 * k - 2))
                 /\ Line(vtt, 3 * k) # Line(srt, 4 * k - 2)

\* C15, reached: a result of two different segments is saved as srt and as
\* vtt.
C15_Witness ==
    /\ sv_files["srt"].saved
    /\ sv_files["vtt"].saved
    /\ Len(SavedSegments) = 2
    /\ SegmentText(1) # SegmentText(2)
    /\ SegmentStart(1) # SegmentStart(2)

\* ------------------------------------------- claims on the batch discovery

\* The extension set of the running batch operation.
BatchExtensions ==
    IF op = "batch_convert" THEN video_extensions ELSE audio_extensions

\* The names os.listdir returned to the running batch.
Listed == { bc.listing[k] : k \in 1..Len(bc.listing) }

\* The paths a batch is to process: the listed names whose suffix, lower-cased,
\* is in the extension set, each joined to the directory.
ToProcess ==
    { OsJoin(bc.directory, name) :
          name \in { n \in Listed : Lower(Suffix(PathName(PathOf(n)))) \in BatchExtensions } }

\* The paths the single-file operation was called on so far.
Processed == { calls[k].input : k \in 1..Len(calls) }

\* C16: whenever a batch is between two files or done, it has called its
\* single-file operation only on entries of the one listing of the input
\* directory whose lower-cased suffix is in the extension set, each at most
\* once and each a direct entry of the directory; when the batch has
\* returned it has done so on every one of them, whatever the letter case of
\* the suffix.
C16_BatchProcessesMatchingEntries ==
    (InBatch /\ pc \in { "bc_loop", "done" }) =>
        LET source == AbsParts(PathOf(bc.directory))
            matching == ToProcess
            processed == Processed
        IN /\ processed \subseteq matching
           /\ Cardinality(processed) = Len(calls)
           /\ \A p \in processed :
                  LET entry == AbsParts(PathOf(p))
                  IN /\ entry \in files \cup dirs
                     /\ Len(entry) = Len(source) + 1
           /\ \A name \in Listed : source \o << name >> \in files \cup dirs
           /\ (pc = "done" /\ outcome.status = "returned" => processed = matching)

\* C16, reached: a batch_convert over a directory that holds b.MP4, c.mp3 and
\* the directory sub with a.mp4 in it has returned after one call, on b.MP4.
C16_Witness ==
    /\ op = "batch_convert"
    /\ pc = "done"
    /\ outcome.status = "returned"
    /\ Listed = { BMp4, CMp3, << "sub" >> }
    /\ AbsParts(PathOf(bc.directory)) \o << << "sub" >>, AMp4 >> \in files
    /\ Processed = { OsJoin(bc.directory, BMp4) }
    /\ Len(calls) = 1

\* --------------------------------------- claims on the failure propagation

\* The operation under way is a single-file one, called directly.
SingleFile == op \in { "extract_audio", "transcribe_and_save" }

\* Where save_transcription writes.
TranscriptionTarget == AbsParts(PathOf(ts.output_path))

\* C17: a single-file operation called directly ends by returning or by
\* raising, and it returns only when nothing failed: for extract_audio the
\* resolved input exists, the clip was opened and closed and the audio file
\* is complete; for transcribe_and_save the audio exists, the model is
\* loaded and a known format is fully written.  In every other case the
\* caller gets an exception and no path.
C17_SingleFileFailureRaises ==
    (SingleFile /\ pc = "done") =>
        /\ outcome.status \in { "returned", "raised" }
        /\ Len(calls) = 1
        /\ outcome.status = "returned" <=> calls[1].ok
        /\ outcome.status = "raised" =>
               /\ outcome.value = Empty
               /\ outcome.exc # ""
        /\ (op = "extract_audio" /\ outcome.status = "returned") =>
               /\ OsExists(ea.resolved_video_path)
               /\ ~ea.clip_open
               /\ handles = 0
               /\ ea.written = << AudioTarget(ea.audio_path) >>
               /\ AudioTarget(ea.audio_path) \in files \ partial
               /\ outcome.value = ea.audio_path
        /\ (op = "transcribe_and_save" /\ outcome.status = "returned") =>
               /\ OsExists(ts.audio_path)
               /\ model # None
               /\ loader_calls = << "ok" >>
               /\ outcome.value = ts.output_path
               /\ KnownFormat(ts.output_format) =>
                      /\ ts.saved
                      /\ TranscriptionTarget \in files \ partial
        /\ (op = "transcribe_and_save" /\ loader_calls # << "ok" >>) =>
               outcome.status = "raised"
        /\ (op = "extract_audio" /\ AudioTarget(ea.audio_path) \in partial) =>
               outcome.status = "raised"

\* C17, reached: extract_audio on an existing video whose audio write failed
\* part-way has raised Exception and left the caller no path.
C17_Witness ==
    /\ op = "extract_audio"
    /\ pc = "done"
    /\ OsExists(ea.resolved_video_path)
    /\ AudioTarget(ea.audio_path) \in partial
    /\ outcome = Raised("Exception")
    /\ ~calls[1].ok

\* C18: what json.load reads back from the json file that save_transcription
\* wrote has the text of the result in memory, character for character, and
\* the metadata object that transcribe_audio added.
C18_JsonRoundTrip ==
    sv_loaded.loaded =>
        /\ sv_loaded.value.kind = "dict"
        /\ HasKey(sv_loaded.value, << "text" >>)
        /\ GetItem(sv_loaded.value, << "text" >>) = GetItem(sv_result, << "text" >>)
        /\ HasKey(sv_loaded.value, << "metadata" >>)
        /\ GetItem(sv_loaded.value, << "metadata" >>)
               = GetItem(sv_result, << "metadata" >>)

\* C18, reached: a text with a non-ASCII letter, a quote, a backslash, a line
\* end and CJK characters was written and read back.
C18_Witness ==
    /\ sv_loaded.loaded
    /\ GetItem(sv_result, << "text" >>) = PyStr(<< EAcute, QUOTE, BSL, "n", NL, Kanji >>)
    /\ GetItem(sv_loaded.value, << "text" >>).value[1] = EAcute
    /\ Len(GetItem(sv_result, << "segments" >>).value) = 2

\* --------------------------------------------- claims on the files opened

\* C19: in batch_convert the file the decoder has opened is the discovered
\* entry itself, the input directory joined with the listed name.
C19_BatchOpensListedEntry ==
    (op = "batch_convert" /\ ea.clip_open) =>
        /\ ea.video_path \in ToProcess
        /\ AbsParts(PathOf(ea.resolved_video_path)) = AbsParts(PathOf(ea.video_path))

\* C20: during batch_convert at most one media-decoding handle is open, and
\* none is open when the loop goes on to the next file or returns.
C20_OneHandleAtATime ==
    op = "batch_convert" =>
        /\ handles <= 1
        /\ pc \in { "bc_loop", "ea_begin", "ea_open", "done" } => handles = 0

\* ------------------------------------------------- claims on the batch loop

\* The inputs of the calls made so far, in call order.
CallInputs == [k \in 1..Len(calls) |-> calls[k].input]

\* In a batch the calls made so far are on the first found files, one call
\* each and in order; the file the loop is at has had at most one call, and
\* no path is found twice.
OneCallPerFile ==
    InBatch =>
        /\ Len(calls) <= Len(bc.found)
        /\ CallInputs = SubSeq(bc.found, 1, Len(calls))
        /\ Len(calls) \in { bc.i - 1, bc.i }
        /\ (pc \in { "bc_loop", "done" } => Len(calls) = bc.i - 1)
        /\ \A j, k \in 1..Len(bc.found) : j # k => bc.found[j] # bc.found[k]
        /\ ((pc = "done" /\ outcome.status = "returned") => CallInputs = bc.found)

\* A step never goes back: after the extraction call extract_audio closes or
\* raises, a call that has ended is never taken up again, and the loop moves
\* on to the next file after a call, failed or not.
NoRetry ==
    /\ pc = "ea_write" => pc' \in { "ea_close", "ea_raised" }
    /\ pc \in { "ea_close", "ea_returned", "ea_raised" } =>
           pc' \notin { "ea_begin", "ea_open", "ea_write" }
    /\ pc \in { "ts_returned", "ts_raised" } =>
           pc' \notin { "ts_begin", "ts_load", "ts_transcribe", "ts_save" }
    /\ (InBatch /\ pc \in { "ea_returned", "ea_raised", "ts_returned", "ts_raised" }) =>
           /\ bc'.i = bc.i + 1
           /\ calls' = calls
    /\ (InBatch /\ pc = "bc_loop" /\ pc' # "done") =>
           /\ bc' = bc
           /\ pc' \in { "ea_begin", "ts_begin" }

\* C21: a batch calls its single-file operation exactly once on every found
\* file, failed or not, and never twice on one; extract_audio makes its
\* extraction call at most once.
C21_OnceEach == []OneCallPerFile /\ [][NoRetry]_vars

\* C21, reached: a batch over three found files has returned after three
\* calls, the first of which failed.
C21_Witness ==
    /\ op = "batch_convert"
    /\ pc = "done"
    /\ outcome.status = "returned"
    /\ Len(bc.found) = 3
    /\ Len(calls) = 3
    /\ ~calls[1].ok
    /\ calls[2].ok

\* ------------------------------------------- claims on the files left behind

\* A save_transcription that opened its output file for writing and failed
\* leaves the file in place with what was written of it, and raises.
FailedSaveLeavesFile ==
    (/\ pc = "ts_save"
     /\ pc' = "ts_raised"
     /\ TranscriptionTarget \in touched'
     /\ TranscriptionTarget \notin dirs') =>
        /\ TranscriptionTarget \in files'
        /\ TranscriptionTarget \in partial'
        /\ ts'.exc = "Exception"
        /\ ~ts'.saved
        /\ ~calls'[Len(calls')].ok

\* A file is never removed, and a half-written file stays half-written until
\* a later write of the same path succeeds.
PartialFilesStay ==
    /\ files \subseteq files'
    /\ \A p \in partial \ partial' :
           /\ p \in files'
           /\ pc' \in { "ts_returned", "ea_close" }

\* C22: when save_transcription fails after it opened the output file, the
\* half-written file is left in place, neither removed nor put back to what
\* it held before, and the operation raises.
C22_PartialFileLeft ==
    [](partial \subseteq files) /\ [][FailedSaveLeavesFile /\ PartialFilesStay]_vars

\* C22, reached: transcribe_and_save has raised Exception and the output
\* file is there, half-written.
C22_Witness ==
    /\ op = "transcribe_and_save"
    /\ pc = "done"
    /\ outcome = Raised("Exception")
    /\ TranscriptionTarget \in files \cap partial
    /\ TranscriptionTarget \in touched

\* C23: a batch whose input directory does not exist has raised
\* FileNotFoundError at once: nothing was created or written, no file was
\* processed.  A batch raises FileNotFoundError in no other case.
C23_MissingDirectoryNotFound ==
    (InBatch /\ pc # "bc_begin") =>
        /\ ~OsExists(bc.directory) =>
               /\ pc = "done"
               /\ outcome = Raised("FileNotFoundError")
               /\ touched = { }
               /\ partial = { }
               /\ calls = << >>
               /\ bc.listing = << >>
               /\ model = None
               /\ handles = 0
        /\ outcome.exc = "FileNotFoundError" => ~OsExists(bc.directory)

\* C23, reached: batch_transcribe('nodir', 'out') has raised
\* FileNotFoundError and the directory out was not made.
C23_Witness ==
    /\ op = "batch_transcribe"
    /\ pc = "done"
    /\ bc.directory = << "nodir" >>
    /\ bc.output_given
    /\ bc.output_directory = << "out" >>
    /\ ~OsExists(bc.output_directory)
    /\ outcome = Raised("FileNotFoundError")
    /\ touched = { }

\* ------------------------------------------ claims on what resolve_path finds

\* C24: when resolve_path returns something other than the token it was
\* given, what it returns exists.
C24_ChangedMeansFound ==
    (rp_pc = "done" /\ rp_out # rp_in) => OsExists(rp_out)

\* ------------------------------------------ claims on the transcription file

\* C25: when transcribe_and_save returns its output path, on its own or
\* inside batch_transcribe, the call has written a file at that path,
\* whatever the output format.
C25_ReturnedPathWritten ==
    (pc = "ts_returned" \/ (op = "transcribe_and_save" /\ outcome.status = "returned")) =>
        /\ ts.saved
        /\ TranscriptionTarget \in files
        /\ TranscriptionTarget \in touched

\* ------------------------------------------ claims on the outputs of a batch

\* C26: in one batch no two calls that succeeded gave the same output path,
\* so the list returned has no path twice.
C26_DistinctOutputs ==
    InBatch =>
        /\ \A j, k \in 1..Len(calls) :
               (j # k /\ calls[j].ok /\ calls[k].ok) => calls[j].value # calls[k].value
        /\ outcome.status = "returned" =>
               \A j, k \in 1..Len(outcome.value) :
                   j # k => outcome.value[j] # outcome.value[k]

\* transcribe_audio is running.
InTranscribeAudio == pc \in { "ts_begin", "ts_load", "ts_transcribe" }

\* No step of transcribe_audio, and no step that hands on its exception,
\* creates or changes a file or a directory.
TranscribeAudioWritesNothing ==
    (InTranscribeAudio \/ pc = "ts_raised") => UNCHANGED fs_vars

\* C27: while transcribe_audio runs inside transcribe_and_save nothing has
\* been created or written, and when it has raised - the audio is missing,
\* the model did not load, the transcription failed - that is still so: the
\* output file is made or truncated only by the save that follows success.
C27_NoOutputBeforeTranscription ==
    /\ [](op = "transcribe_and_save" =>
              /\ InTranscribeAudio => touched = { } /\ partial = { }
              /\ outcome.exc \in { "FileNotFoundError", "LoadError" } =>
                     touched = { } /\ partial = { })
    /\ [][TranscribeAudioWritesNothing]_vars

\* C27, reached: transcribe_and_save has raised because the transcription
\* failed, with the model loaded, and nothing was created or written.
C27_Witness ==
    /\ op = "transcribe_and_save"
    /\ pc = "done"
    /\ outcome = Raised("Exception")
    /\ model # None
    /\ touched = { }
    /\ ~PathExists(PathParent(PathOf(ts.output_path)))

\* --------------------------------------------- claims on the model's loading

\* The step of transcribe_audio that finds the audio missing raises and
\* leaves the model and the loader alone.
MissingAudioLoadsNothing ==
    (pc = "ts_begin" /\ ~OsExists(ts.audio_path)) =>
        /\ pc' = "ts_raised"
        /\ ts'.exc = "FileNotFoundError"
        /\ UNCHANGED << model, loader_calls >>

\* C28: transcribe_audio on a missing audio path raises without a call of
\* the loader, so that a transcribe_and_save on it ends with no model held;
\* batch_transcribe holds no model before its first call, and returns the
\* empty list with none held when no file matches.
C28_NoLoadWithoutAudio ==
    /\ []((op = "transcribe_and_save" /\ pc # "ts_begin" /\ ~OsExists(ts.audio_path)) =>
              /\ model = None
              /\ loader_calls = << >>
              /\ pc \in { "ts_raised", "done" })
    /\ []((op = "batch_transcribe" /\ bc.found = << >>) =>
              /\ model = None
              /\ loader_calls = << >>
              /\ calls = << >>
              /\ pc = "done" => outcome.status = "raised" \/ outcome = Returned(<< >>))
    /\ [][MissingAudioLoadsNothing]_vars

\* C28, reached: batch_transcribe over an existing directory in which no
\* name matches has returned the empty list, with no model loaded.
C28_Witness ==
    /\ op = "batch_transcribe"
    /\ pc = "done"
    /\ bc.listing # << >>
    /\ bc.found = << >>
    /\ outcome = Returned(<< >>)
    /\ model = None
    /\ loader_calls = << >>


\* -------------------------------------------------------------------------
\* SimpleGUI (src/gui_launcher.py): the main thread runs the event handlers,
\* every click that passes start_processing starts one worker thread that runs
\* process_file.  The threads interleave statement by statement.

\* The number of worker threads one run starts at most.
MaxWorkers == 3

\* What the file dialog can return: "" when it is cancelled.
Chosen == { "", "video", "audio" }

\* The window after SimpleGUI.__init__ and create_widgets.
InitGui ==
    /\ OperationsOff
    /\ WriterOff
    /\ gui_file = ""
    /\ gui_processing = FALSE
    /\ gui_button = "normal"
    /\ gui_progress = FALSE
    /\ gui_status = "Ready"
    /\ gui_main = "idle"
    /\ gui_workers = << >>

GuiUnchanged == UNCHANGED << fs_vars, resolver_vars, writer_vars, operation_vars >>

\* Worker w moves to position p.
WorkerAt(w, p) == [ gui_workers EXCEPT ![w].pc = p ]

\* The workers that are inside process_file.
Running == { w \in 1..Len(gui_workers) : gui_workers[w].pc # "finished" }

\* The Browse button: the dialog's answer replaces file_path unless it is empty.
browse_file ==
    /\ gui_main = "idle"
    /\ \E filename \in Chosen :
        gui_file' = IF filename # "" THEN filename ELSE gui_file
    /\ UNCHANGED << gui_processing, gui_button, gui_progress, gui_status,
                    gui_main, gui_workers >>
    /\ GuiUnchanged

\* A click on the Start Processing button: an enabled button calls its
\* command, a disabled one ignores the click.
click_process_btn ==
    /\ gui_main = "idle"
    /\ gui_button = "normal"
    /\ Len(gui_workers) < MaxWorkers
    /\ gui_main' = "sp_file"
    /\ UNCHANGED << gui_file, gui_processing, gui_button, gui_progress,
                    gui_status, gui_workers >>
    /\ GuiUnchanged

\* start_processing, l.117-119: no file selected, an error box and return.
start_processing_file ==
    /\ gui_main = "sp_file"
    /\ gui_main' = IF gui_file = "" THEN "idle" ELSE "sp_flag"
    /\ UNCHANGED << gui_file, gui_processing, gui_button, gui_progress,
                    gui_status, gui_workers >>
    /\ GuiUnchanged

\* start_processing, l.121-123: already processing, a warning and return.
start_processing_flag ==
    /\ gui_main = "sp_flag"
    /\ gui_main' = IF gui_processing THEN "idle" ELSE "sp_set"
    /\ UNCHANGED << gui_file, gui_processing, gui_button, gui_progress,
                    gui_status, gui_workers >>
    /\ GuiUnchanged

\* start_processing, l.125.
start_processing_set ==
    /\ gui_main = "sp_set"
    /\ gui_processing' = TRUE
    /\ gui_main' = "sp_button"
    /\ UNCHANGED << gui_file, gui_button, gui_progress, gui_status,
                    gui_workers >>
    /\ GuiUnchanged

\* start_processing, l.126.
start_processing_button ==
    /\ gui_main = "sp_button"
    /\ gui_button' = "disabled"
    /\ gui_main' = "sp_progress"
    /\ UNCHANGED << gui_file, gui_processing, gui_progress, gui_status,
                    gui_workers >>
    /\ GuiUnchanged

\* start_processing, l.127.
start_processing_progress ==
    /\ gui_main = "sp_progress"
    /\ gui_progress' = TRUE
    /\ gui_main' = "sp_thread"
    /\ UNCHANGED << gui_file, gui_processing, gui_button, gui_status,
                    gui_workers >>
    /\ GuiUnchanged

\* start_processing, l.130-131: the thread is started and the handler returns.
start_processing_thread ==
    /\ gui_main = "sp_thread"
    /\ gui_workers' = Append(gui_workers, [ pc |-> "begin", is_video |-> FALSE ])
    /\ gui_main' = "idle"
    /\ UNCHANGED << gui_file, gui_processing, gui_button, gui_progress,
                    gui_status >>
    /\ GuiUnchanged

\* process_file, l.135-140: the path is read and the output directory made;
\* mkdir raises when the parent is missing or a file has the name.
process_file_begin ==
    \E w \in 1..Len(gui_workers) :
    /\ gui_workers[w].pc = "begin"
    /\ \E made \in BOOLEAN :
        gui_workers' =
            [ gui_workers EXCEPT
                ![w] = [ pc |-> IF made THEN "status_processing" ELSE "except",
                         is_video |-> gui_file = "video" ] ]
    /\ UNCHANGED << gui_file, gui_processing, gui_button, gui_progress,
                    gui_status, gui_main >>
    /\ GuiUnchanged

\* process_file, l.142-151.
process_file_status_processing ==
    \E w \in 1..Len(gui_workers) :
    /\ gui_workers[w].pc = "status_processing"
    /\ gui_status' = "Processing..."
    /\ gui_workers' =
        WorkerAt(w, IF gui_workers[w].is_video THEN "status_converting"
                    ELSE "status_transcribing")
    /\ UNCHANGED << gui_file, gui_processing, gui_button, gui_progress,
                    gui_main >>
    /\ GuiUnchanged

\* process_file, l.152-153.
process_file_status_converting ==
    \E w \in 1..Len(gui_workers) :
    /\ gui_workers[w].pc = "status_converting"
    /\ gui_status' = "Converting video to audio..."
    /\ gui_workers' = WorkerAt(w, "convert")
    /\ UNCHANGED << gui_file, gui_processing, gui_button, gui_progress,
                    gui_main >>
    /\ GuiUnchanged

\* process_file, l.154: extract_audio returns or raises.
process_file_convert ==
    \E w \in 1..Len(gui_workers) :
    /\ gui_workers[w].pc = "convert"
    /\ \E raised \in BOOLEAN :
        gui_workers' =
            WorkerAt(w, IF raised THEN "except" ELSE "status_transcribing")
    /\ UNCHANGED << gui_file, gui_processing, gui_button, gui_progress,
                    gui_status, gui_main >>
    /\ GuiUnchanged

\* process_file, l.157-160.
process_file_status_transcribing ==
    \E w \in 1..Len(gui_workers) :
    /\ gui_workers[w].pc = "status_transcribing"
    /\ gui_status' = "Transcribing audio..."
    /\ gui_workers' = WorkerAt(w, "transcribe")
    /\ UNCHANGED << gui_file, gui_processing, gui_button, gui_progress,
                    gui_main >>
    /\ GuiUnchanged

\* process_file, l.162-167: the model is loaded and the file transcribed and
\* saved, or one of the two raises.
process_file_transcribe ==
    \E w \in 1..Len(gui_workers) :
    /\ gui_workers[w].pc = "transcribe"
    /\ \E raised \in BOOLEAN :
        gui_workers' =
            WorkerAt(w, IF raised THEN "except" ELSE "status_complete")
    /\ UNCHANGED << gui_file, gui_processing, gui_button, gui_progress,
                    gui_status, gui_main >>
    /\ GuiUnchanged

\* process_file, l.169.
process_file_status_complete ==
    \E w \in 1..Len(gui_workers) :
    /\ gui_workers[w].pc = "status_complete"
    /\ gui_status' = "Complete!"
    /\ gui_workers' = WorkerAt(w, "ask")
    /\ UNCHANGED << gui_file, gui_processing, gui_button, gui_progress,
                    gui_main >>
    /\ GuiUnchanged

\* process_file, l.172-176: the question; on yes os.startfile, which raises
\* where the platform has none.
process_file_ask ==
    \E w \in 1..Len(gui_workers) :
    /\ gui_workers[w].pc = "ask"
    /\ \E result \in BOOLEAN, raised \in BOOLEAN :
        gui_workers' =
            WorkerAt(w, IF result /\ raised THEN "except" ELSE "finally_flag")
    /\ UNCHANGED << gui_file, gui_processing, gui_button, gui_progress,
                    gui_status, gui_main >>
    /\ GuiUnchanged

\* process_file, l.178-180.
process_file_except ==
    \E w \in 1..Len(gui_workers) :
    /\ gui_workers[w].pc = "except"
    /\ gui_status' = "Error occurred"
    /\ gui_workers' = WorkerAt(w, "finally_flag")
    /\ UNCHANGED << gui_file, gui_processing, gui_button, gui_progress,
                    gui_main >>
    /\ GuiUnchanged

\* process_file, l.183.
process_file_finally_flag ==
    \E w \in 1..Len(gui_workers) :
    /\ gui_workers[w].pc = "finally_flag"
    /\ gui_processing' = FALSE
    /\ gui_workers' = WorkerAt(w, "finally_button")
    /\ UNCHANGED << gui_file, gui_button, gui_progress, gui_status, gui_main >>
    /\ GuiUnchanged

\* process_file, l.184.
process_file_finally_button ==
    \E w \in 1..Len(gui_workers) :
    /\ gui_workers[w].pc = "finally_button"
    /\ gui_button' = "normal"
    /\ gui_workers' = WorkerAt(w, "finally_progress")
    /\ UNCHANGED << gui_file, gui_processing, gui_progress, gui_status,
                    gui_main >>
    /\ GuiUnchanged

\* process_file, l.185: the last statement, the thread ends after it.
process_file_finally_progress ==
    \E w \in 1..Len(gui_workers) :
    /\ gui_workers[w].pc = "finally_progress"
    /\ gui_progress' = FALSE
    /\ gui_workers' = WorkerAt(w, "finished")
    /\ UNCHANGED << gui_file, gui_processing, gui_button, gui_status, gui_main >>
    /\ GuiUnchanged

NextGui ==
    \/ browse_file
    \/ click_process_btn
    \/ start_processing_file
    \/ start_processing_flag
    \/ start_processing_set
    \/ start_processing_button
    \/ start_processing_progress
    \/ start_processing_thread
    \/ process_file_begin
    \/ process_file_status_processing
    \/ process_file_status_converting
    \/ process_file_convert
    \/ process_file_status_transcribing
    \/ process_file_transcribe
    \/ process_file_status_complete
    \/ process_file_ask
    \/ process_file_except
    \/ process_file_finally_flag
    \/ process_file_finally_button
    \/ process_file_finally_progress

SpecGui == InitGui /\ [][NextGui]_vars

\* C29: at most one worker thread is inside process_file at any time; no
\* thread is started while an earlier worker has not finished, so a worker's
\* cleanup never runs beside a newer worker.
C29_OneWorker == Cardinality(Running) <= 1

\* C30: resolve_path is idempotent on an unchanged file system,
\* resolve_path(resolve_path(t)) = resolve_path(t), and a result that differs
\* from the token is an absolute path.
C30_IdempotentAndAbsolute ==
    rp_pc = "done" =>
        /\ resolve_path(rp_out) = rp_out
        /\ rp_out # rp_in => IsAbs(rp_out)

====
